---- MODULE Spec2Model ----
(***************************************************************************)
(* Model of the emission calculation engine of eco-event-tracker-api:      *)
(* calculatePowerEmissions, calculateWasteEmissions,                       *)
(* calculateTransportEmissions, estimateTransportEmissions,                *)
(* inferEventPreset, calculateCateringEmissions,                           *)
(* estimateCateringEmissions, calculateVirtualPowerEmissions and           *)
(* Co2CalculationService.calculate; and of                                 *)
(* EventRepository.createEventWithEmissionData, which stores an event and  *)
(* its emission data in two tables by three requests to the database.      *)
(*                                                                         *)
(* Every calculator is a pure function of its arguments.  One call is one  *)
(* action: it takes its arguments from a small set, runs the whole         *)
(* function and leaves the arguments and the returned value (or the error  *)
(* thrown) in the state, and in the list of the calls answered so far.     *)
(*                                                                         *)
(* Numbers.  The code computes in decimal fractions; the model computes    *)
(* the same values exactly, as integer counts of a fixed unit per          *)
(* quantity (stated where each quantity is introduced).                    *)
(* Math.round(x * 1000) / 1000 becomes rounding to the nearest multiple    *)
(* of 0.001, halves upwards, which is what Math.round does.  Binary        *)
(* floating-point noise (0.1 + 0.2 # 0.3) is outside the model.            *)
(*                                                                         *)
(* An optional field (a TypeScript `x?: T`) is <<>> when undefined and     *)
(* <<v>> when it holds v.                                                  *)
(***************************************************************************)
EXTENDS Integers, Sequences, FiniteSets, TLC

VARIABLES
    op,      \* the function called: "idle" before the call
    input,   \* its arguments
    output,  \* what it returned: [ok |-> TRUE, result |-> ...], or the
             \* error it threw: [ok |-> FALSE, error |-> ...]
    calls,   \* the calls answered so far, oldest first, each with its
             \* function, arguments and answer
    events,               \* the rows of table events
    event_emission_data,  \* the rows of table event_emission_data
    requests              \* the calls of createEventWithEmissionData: where
                          \* each one stands, and what it was given

calculatorVars == <<op, input, output, calls>>
repositoryVars == <<events, event_emission_data, requests>>
vars == <<op, input, output, calls, events, event_emission_data, requests>>

\* The call being answered joins the calls answered so far.
Logged == calls' = Append(calls, [op |-> op', input |-> input', output |-> output'])

(***************************************************************************)
(* Bounds of the model                                                     *)
(***************************************************************************)
\* Longest argument list (entries, items, journeys) a call is given.
MaxLen == 2
\* Most calls made one after another.
MaxCalls == 3
\* Calls of createEventWithEmissionData under way at once.
MaxRequests == 2

(***************************************************************************)
(* Helpers shared by the calculators                                       *)
(***************************************************************************)
Some(v) == <<v>>
None == <<>>
IsDefined(o) == o # <<>>
Get(o) == o[1]
Opt(S) == {None} \cup {Some(v) : v \in S}

\* a ?? b
Coalesce(a, b) == IF IsDefined(a) THEN a ELSE b

\* NaN and Infinity are held as two integers beyond every quantity of the
\* model; both are positive, as x < 0, x <= 0 and x < 3700 are false of NaN
\* and of Infinity.  -Infinity does not arise: no calculator multiplies or
\* subtracts a negative quantity.
NaN == 2000000001
Infinity == 2000000002
\* Number.isFinite(x)
IsFinite(x) == x \notin {NaN, Infinity}

\* a + b and a * b of JavaScript numbers that are not negative.
Plus(a, b) ==
    IF a = NaN \/ b = NaN THEN NaN
    ELSE IF a = Infinity \/ b = Infinity THEN Infinity
    ELSE a + b
Times(a, b) ==
    IF a = NaN \/ b = NaN THEN NaN
    ELSE IF a = Infinity \/ b = Infinity
    THEN (IF a = 0 \/ b = 0 THEN NaN ELSE Infinity)
    ELSE a * b
\* a > b: false when either is NaN.
Greater(a, b) == a # NaN /\ b # NaN /\ a > b

\* Math.round(x * 1000) / 1000 for a value x held as a count of units of
\* which perMilli make 0.001: the nearest multiple of 0.001, halves upwards;
\* NaN and Infinity stay what they are.
Round3(x, perMilli) ==
    IF ~IsFinite(x) THEN x
    ELSE ((2 * x + perMilli) \div (2 * perMilli)) * perMilli

Ok(r) == [ok |-> TRUE, result |-> r]
Throw(e) == [ok |-> FALSE, error |-> e]

RECURSIVE SumSeq(_)
SumSeq(s) == IF s = <<>> THEN 0 ELSE Plus(Head(s), SumSeq(Tail(s)))

\* A JavaScript Map is a sequence of [key, value] records in insertion order.
MapHas(m, k) == \E at \in 1..Len(m) : m[at].key = k
MapGet(m, k) == m[CHOOSE at \in 1..Len(m) : m[at].key = k].value
\* Map.prototype.set: an existing key keeps its position.
MapSet(m, k, v) ==
    IF MapHas(m, k)
    THEN [m EXCEPT ![CHOOSE at \in 1..Len(m) : m[at].key = k] = [key |-> k, value |-> v]]
    ELSE Append(m, [key |-> k, value |-> v])

\* The argument lists of length 1..n over a set of elements.
RECURSIVE SeqsOfLen(_, _)
SeqsOfLen(S, n) ==
    IF n = 0 THEN {<<>>}
    ELSE {Append(s, x) : s \in SeqsOfLen(S, n - 1), x \in S}

InsertAt(s, pos, x) == SubSeq(s, 1, pos - 1) \o <<x>> \o SubSeq(s, pos, Len(s))

\* Lists of up to MaxLen elements: one element of Probe at any position
\* among elements of Usual.
ListsWith(Probe, Usual) ==
    UNION { { InsertAt(s, pos, p) : p \in Probe, pos \in 1..(Len(s) + 1) } :
            s \in UNION { SeqsOfLen(Usual, n) : n \in 0..(MaxLen - 1) } }

(***************************************************************************)
(* Calls one after another.  The calculators are exported functions of     *)
(* modules that hold their tables in const bindings and assign nothing     *)
(* outside their own locals, so a process calls them over and over, in any *)
(* order (Co2CalculationService.calculate calls four in a row).            *)
(***************************************************************************)
\* The calls that are made again and in between other calls.
FurtherCalls ==
    << [op |-> "calculatePowerEmissions",
        input |-> << [source |-> "grid_electricity", totalKwh |-> Some(246913),
                      durationHours |-> None, loadKw |-> None,
                      participantCount |-> None] >>],
       [op |-> "calculatePowerEmissions",
        input |-> << [source |-> "wind", totalKwh |-> Some(246913),
                      durationHours |-> None, loadKw |-> None,
                      participantCount |-> None] >>],
       [op |-> "calculateWasteEmissions",
        input |-> << [wasteType |-> "food", disposalMethod |-> "landfill",
                      quantityG |-> 12345] >>],
       [op |-> "calculateTransportEmissions",
        input |-> << [distanceKm |-> 15, mode |-> "car_petrol"] >>],
       [op |-> "estimateTransportEmissions",
        input |-> [participantCount |-> 12000,
                   options |-> [preset |-> None, customPDF |-> None]]],
       [op |-> "estimateTransportEmissions",
        input |-> [participantCount |-> 150,
                   options |-> [preset |-> Some("national"), customPDF |-> None]]],
       [op |-> "inferEventPreset", input |-> 150],
       [op |-> "calculateCateringEmissions",
        input |-> << [category |-> "meal", type |-> "vegetarian", servings |-> 1200] >>],
       [op |-> "estimateCateringEmissions", input |-> 2000],
       [op |-> "estimateCateringEmissions", input |-> 0],
       [op |-> "calculateVirtualPowerEmissions",
        input |-> [participantCount |-> 10, durationHours |-> 8,
                   participantGridFactor |-> None, participantSegments |-> None]],
       [op |-> "calculate",
        input |-> [waste_kg |-> 50000, num_participants |-> 350,
                   energy_kwh |-> 400000, catering_meals |-> 2000,
                   total_co2 |-> 612345]] >>

IsFurtherCall(call) ==
    \E k \in 1..Len(FurtherCalls) :
        FurtherCalls[k].op = call.op /\ FurtherCalls[k].input = call.input

\* A call can be made: the first, or one more after calls that are all among
\* FurtherCalls.
Callable ==
    /\ Len(calls) < MaxCalls
    /\ \A i \in 1..Len(calls) : IsFurtherCall(calls[i])

\* The arguments a function is called with: the first call takes them from
\* all the arguments of the function, a further call from FurtherCalls.
ArgumentsOf(name, all) ==
    IF calls = <<>> THEN all
    ELSE {FurtherCalls[k].input :
            k \in {j \in 1..Len(FurtherCalls) : FurtherCalls[j].op = name}}

(***************************************************************************)
(* Power calculator: src/src/services/power/power.service.ts               *)
(*                                                                         *)
(* Units: durationHours in 0.5 h, loadKw in 0.001 kW (W), totalKwh and     *)
(* every energy in 0.0005 kWh, emission factors in 0.001 kg CO2e/kWh,      *)
(* emissions in 0.0000005 kg CO2e.                                         *)
(***************************************************************************)
\* Units of energy per 0.001 kWh and of emissions per 0.001 kg CO2e.
PowerKwhPerMilli == 2
PowerKgPerMilli == 2000

PowerSource == {"grid_electricity", "diesel_generator", "solar", "natural_gas"}

Power_EMISSION_FACTORS ==
    [ grid_electricity |-> [kgCO2ePerKwh |-> 431, scope |-> "scope_2"],
      diesel_generator |-> [kgCO2ePerKwh |-> 700, scope |-> "scope_1"],
      solar            |-> [kgCO2ePerKwh |-> 0,   scope |-> "zero"],
      natural_gas      |-> [kgCO2ePerKwh |-> 202, scope |-> "scope_1"] ]

\* maxParticipants of the last bracket is Infinity: <<>> here.
WATTS_PER_PERSON ==
    << [maxParticipants |-> Some(49),   wattsPerPerson |-> 60, label |-> "intimate (<50)"],
       [maxParticipants |-> Some(199),  wattsPerPerson |-> 50, label |-> "small (50-199)"],
       [maxParticipants |-> Some(999),  wattsPerPerson |-> 40, label |-> "medium (200-999)"],
       [maxParticipants |-> Some(4999), wattsPerPerson |-> 30, label |-> "large (1000-4999)"],
       [maxParticipants |-> None,       wattsPerPerson |-> 25, label |-> "mega (5000+)"] >>

\* participantCount <= b.maxParticipants: of NaN it is false of every
\* bracket, of Infinity it is true of the last one alone.
BracketFits(participantCount, b) ==
    IF IsDefined(b.maxParticipants) THEN participantCount <= Get(b.maxParticipants)
    ELSE participantCount # NaN

\* WATTS_PER_PERSON.find((b) => participantCount <= b.maxParticipants): the
\* callers see to it that some bracket fits.
estimateLoadKw(participantCount) ==
    LET first == CHOOSE i \in 1..Len(WATTS_PER_PERSON) :
                    /\ BracketFits(participantCount, WATTS_PER_PERSON[i])
                    /\ \A j \in 1..(i - 1) :
                          ~BracketFits(participantCount, WATTS_PER_PERSON[j])
        bracket == WATTS_PER_PERSON[first]
    IN [loadKw |-> Times(participantCount, bracket.wattsPerPerson),
        scaleLabel |-> bracket.label]

VALID_SOURCES == {"grid_electricity", "diesel_generator", "solar", "natural_gas"}

\* resolveKwh with the explicit load tried before totalKwh.
resolveKwhLoadFirst(entry, index) ==
    IF IsDefined(entry.durationHours) /\ IsDefined(entry.loadKw)
       /\ Get(entry.durationHours) >= 0 /\ Get(entry.loadKw) >= 0
    THEN Ok([kwh |-> Times(Get(entry.durationHours), Get(entry.loadKw)),
             estimatedLoadKw |-> None, scaleLabel |-> None])
    ELSE IF IsDefined(entry.totalKwh)
    THEN IF Get(entry.totalKwh) < 0
         THEN Throw([index |-> index, field |-> "totalKwh", what |-> "must be >= 0"])
         ELSE Ok([kwh |-> Get(entry.totalKwh), estimatedLoadKw |-> None, scaleLabel |-> None])
    ELSE Throw([index |-> index, field |-> "entry", what |-> "provide totalKwh, or durationHours with either loadKw or participantCount"])

\* index is the entry's position in the array, counted from 0 as in the code.
resolveKwh(entry, index) ==
    IF IsDefined(entry.totalKwh)
    THEN IF Get(entry.totalKwh) < 0
         THEN Throw([index |-> index, field |-> "totalKwh", what |-> "must be >= 0"])
         ELSE Ok([kwh |-> Get(entry.totalKwh), estimatedLoadKw |-> None, scaleLabel |-> None])
    ELSE IF ~IsDefined(entry.durationHours)
    THEN Throw([index |-> index, field |-> "entry", what |-> "provide totalKwh, or durationHours with either loadKw or participantCount"])
    ELSE IF Get(entry.durationHours) < 0
    THEN Throw([index |-> index, field |-> "durationHours", what |-> "must be >= 0"])
    ELSE IF IsDefined(entry.loadKw)
    THEN IF Get(entry.loadKw) < 0
         THEN Throw([index |-> index, field |-> "loadKw", what |-> "must be >= 0"])
         ELSE Ok([kwh |-> Times(Get(entry.durationHours), Get(entry.loadKw)),
                  estimatedLoadKw |-> None, scaleLabel |-> None])
    ELSE IF IsDefined(entry.participantCount)
    THEN IF Get(entry.participantCount) <= 0
         THEN Throw([index |-> index, field |-> "participantCount", what |-> "must be > 0"])
         ELSE IF \A i \in 1..Len(WATTS_PER_PERSON) :
                    ~BracketFits(Get(entry.participantCount), WATTS_PER_PERSON[i])
         \* find returns undefined, and destructuring it throws a TypeError
         THEN Throw([index |-> index, field |-> "participantCount", what |-> "TypeError"])
         ELSE LET est == estimateLoadKw(Get(entry.participantCount))
              IN Ok([kwh |-> Times(Get(entry.durationHours), est.loadKw),
                     estimatedLoadKw |-> Some(est.loadKw),
                     scaleLabel |-> Some(est.scaleLabel)])
    ELSE Throw([index |-> index, field |-> "entry", what |-> "provide totalKwh, or durationHours with either loadKw or participantCount"])

validateEntry(entry, index) ==
    IF entry.source \notin VALID_SOURCES
    THEN Throw([index |-> index, field |-> "source", what |-> "unknown power source"])
    ELSE Ok(TRUE)

\* entries.forEach((entry, i) => validateEntry(entry, i)): the first throw ends it.
RECURSIVE PowerValidateAll(_, _)
PowerValidateAll(entries, i) ==
    IF i > Len(entries) THEN Ok(TRUE)
    ELSE LET v == validateEntry(entries[i], i - 1)
         IN IF v.ok THEN PowerValidateAll(entries, i + 1) ELSE v

\* The loop body with a repeated source overwritten instead of summed.
PowerAccumulateLast(sourceMap, entry, resolved) ==
    LET meta == Power_EMISSION_FACTORS[entry.source]
    IN MapSet(sourceMap, entry.source,
              [totalKwh |-> resolved.kwh,
               totalKgCO2e |-> Times(resolved.kwh, meta.kgCO2ePerKwh),
               estimatedLoadKw |-> resolved.estimatedLoadKw,
               scaleLabel |-> resolved.scaleLabel])


\* The body of the aggregation loop for entry i (1-based here) on sourceMap.
PowerAccumulate(sourceMap, entry, resolved) ==
    LET meta == Power_EMISSION_FACTORS[entry.source]
        kgCO2e == Times(resolved.kwh, meta.kgCO2ePerKwh)
        existing == IF MapHas(sourceMap, entry.source)
                    THEN MapGet(sourceMap, entry.source)
                    ELSE [totalKwh |-> 0, totalKgCO2e |-> 0,
                          estimatedLoadKw |-> None, scaleLabel |-> None]
    IN MapSet(sourceMap, entry.source,
              [totalKwh |-> Plus(existing.totalKwh, resolved.kwh),
               totalKgCO2e |-> Plus(existing.totalKgCO2e, kgCO2e),
               estimatedLoadKw |-> Coalesce(resolved.estimatedLoadKw, existing.estimatedLoadKw),
               scaleLabel |-> Coalesce(resolved.scaleLabel, existing.scaleLabel)])

\* The aggregation loop with an entry that does not resolve skipped.
RECURSIVE PowerLoopSkipping(_, _, _)
PowerLoopSkipping(entries, i, sourceMap) ==
    IF i > Len(entries) THEN Ok(sourceMap)
    ELSE LET resolved == resolveKwh(entries[i], i - 1)
         IN IF ~resolved.ok THEN PowerLoopSkipping(entries, i + 1, sourceMap)
            ELSE PowerLoopSkipping(entries, i + 1,
                    PowerAccumulate(sourceMap, entries[i], resolved.result))

\* for (let i = 0; i < entries.length; i++) { ... }: a throw of resolveKwh
\* leaves the function, whatever was accumulated.
RECURSIVE PowerLoop(_, _, _)
PowerLoop(entries, i, sourceMap) ==
    IF i > Len(entries) THEN Ok(sourceMap)
    ELSE LET resolved == resolveKwh(entries[i], i - 1)
         IN IF ~resolved.ok THEN resolved
            ELSE PowerLoop(entries, i + 1,
                           PowerAccumulate(sourceMap, entries[i], resolved.result))

\* The breakdown with the per-source figures left unrounded.
PowerBreakdownUnrounded(sourceMap) ==
    [i \in 1..Len(sourceMap) |->
        LET source == sourceMap[i].key
            v == sourceMap[i].value
        IN [source |-> source,
            totalKwh |-> v.totalKwh,
            totalKgCO2e |-> v.totalKgCO2e,
            emissionFactor |-> Power_EMISSION_FACTORS[source].kgCO2ePerKwh,
            scope |-> Power_EMISSION_FACTORS[source].scope,
            estimatedLoadKw |-> v.estimatedLoadKw]]

PowerBreakdown(sourceMap) ==
    [i \in 1..Len(sourceMap) |->
        LET source == sourceMap[i].key
            v == sourceMap[i].value
        IN [source |-> source,
            totalKwh |-> Round3(v.totalKwh, PowerKwhPerMilli),
            totalKgCO2e |-> Round3(v.totalKgCO2e, PowerKgPerMilli),
            emissionFactor |-> Power_EMISSION_FACTORS[source].kgCO2ePerKwh,
            scope |-> Power_EMISSION_FACTORS[source].scope,
            estimatedLoadKw |-> v.estimatedLoadKw]]

\* The notes, each by its kind (and the source it is about).
PowerNotes(sourceMap) ==
    LET est == [i \in 1..Len(sourceMap) |->
                  IF /\ IsDefined(sourceMap[i].value.estimatedLoadKw)
                     /\ IsDefined(sourceMap[i].value.scaleLabel)
                  THEN <<[note |-> "load estimated", source |-> sourceMap[i].key]>>
                  ELSE <<>>]
        RECURSIVE Flat(_)
        Flat(s) == IF s = <<>> THEN <<>> ELSE Head(s) \o Flat(Tail(s))
        hasDiesel == MapHas(sourceMap, "diesel_generator")
        hasGrid == MapHas(sourceMap, "grid_electricity")
        hasSolar == MapHas(sourceMap, "solar")
    IN Flat(est)
       \o (IF /\ hasDiesel /\ hasGrid
              /\ Greater(MapGet(sourceMap, "diesel_generator").totalKgCO2e,
                         MapGet(sourceMap, "grid_electricity").totalKgCO2e)
           THEN <<[note |-> "diesel dominant", source |-> "diesel_generator"]>> ELSE <<>>)
       \o (IF hasDiesel /\ ~hasGrid
           THEN <<[note |-> "generator only", source |-> "diesel_generator"]>> ELSE <<>>)
       \o (IF hasSolar THEN <<[note |-> "solar contributed", source |-> "solar"]>> ELSE <<>>)
       \o <<[note |-> "factor provenance", source |-> "grid_electricity"]>>

calculatePowerEmissions(entries) ==
    IF Len(entries) = 0
    THEN Throw([index |-> -1, field |-> "entries", what |-> "must be a non-empty array"])
    ELSE LET valid == PowerValidateAll(entries, 1)
         IN IF ~valid.ok THEN valid
            ELSE LET loop == PowerLoop(entries, 1, <<>>)
                 IN IF ~loop.ok THEN loop
                    ELSE LET bySource == PowerBreakdown(loop.result)
                             totalKgCO2e == SumSeq([i \in 1..Len(bySource) |-> bySource[i].totalKgCO2e])
                             totalKwh == SumSeq([i \in 1..Len(bySource) |-> bySource[i].totalKwh])
                         IN Ok([totalKgCO2e |-> Round3(totalKgCO2e, PowerKgPerMilli),
                                totalKwh |-> Round3(totalKwh, PowerKwhPerMilli),
                                bySource |-> bySource,
                                factorYear |-> 2023,
                                notes |-> PowerNotes(loop.result)])

\* The entries a call is given.  One entry takes every combination of
\* source and of absent, invalid and valid quantity fields; the others are
\* the entries of the service's own examples.
PowerProbeEntries ==
    [ source : PowerSource \cup {"wind"},
      totalKwh : Opt({-2000, 246913}),         \* -1 kWh, 123.4565 kWh
      durationHours : Opt({-2, 9}),            \* -1 h, 4.5 h
      loadKw : Opt({-1000, 2501}),             \* -1 kW, 2.501 kW
      participantCount : Opt({0, 300}) ]

PowerUsualEntries ==
    { [source |-> "grid_electricity", totalKwh |-> None, durationHours |-> Some(8),
       loadKw |-> Some(50000), participantCount |-> None],
      [source |-> "diesel_generator", totalKwh |-> None, durationHours |-> Some(16),
       loadKw |-> Some(25000), participantCount |-> None],
      [source |-> "solar", totalKwh |-> Some(80001), durationHours |-> None,
       loadKw |-> None, participantCount |-> None],
      [source |-> "diesel_generator", totalKwh |-> None, durationHours |-> Some(12),
       loadKw |-> None, participantCount |-> Some(30)] }

\* Test 1 of the service: grid for 4 h at 50 kW, generator for 8 h at 25 kW.
PowerScenario1 ==
    << [source |-> "grid_electricity", totalKwh |-> None, durationHours |-> Some(8),
        loadKw |-> Some(50000), participantCount |-> None],
       [source |-> "diesel_generator", totalKwh |-> None, durationHours |-> Some(16),
        loadKw |-> Some(25000), participantCount |-> None] >>

\* Entries with NaN or Infinity in one field of the path they resolve by.
PowerNonFiniteEntries ==
    UNION { { [source |-> source, totalKwh |-> Some(x), durationHours |-> None,
               loadKw |-> None, participantCount |-> None],
              [source |-> source, totalKwh |-> None, durationHours |-> Some(x),
               loadKw |-> Some(2501), participantCount |-> None],
              [source |-> source, totalKwh |-> None, durationHours |-> Some(9),
               loadKw |-> Some(x), participantCount |-> None],
              [source |-> source, totalKwh |-> None, durationHours |-> Some(x),
               loadKw |-> None, participantCount |-> Some(300)],
              [source |-> source, totalKwh |-> None, durationHours |-> Some(9),
               loadKw |-> None, participantCount |-> Some(x)] } :
            source \in {"diesel_generator", "solar"}, x \in {NaN, Infinity} }

PowerInputs ==
    {<<>>, PowerScenario1}
        \cup ListsWith(PowerProbeEntries, PowerUsualEntries)
        \cup ListsWith(PowerNonFiniteEntries, PowerUsualEntries)

CallCalculatePowerEmissions ==
    /\ Callable
    /\ \E entries \in ArgumentsOf("calculatePowerEmissions", PowerInputs) :
        /\ op' = "calculatePowerEmissions"
        /\ input' = entries
        /\ output' = calculatePowerEmissions(entries)
        /\ Logged
        /\ UNCHANGED repositoryVars

(***************************************************************************)
(* Waste calculator: src/src/services/waste/waste.test.ts, lines 52-282    *)
(*                                                                         *)
(* Units: quantityG in grams, emission factors in 0.1 kg CO2e per tonne,   *)
(* emissions in 0.0000001 kg CO2e (grams / 1_000_000 x factor).            *)
(***************************************************************************)
WasteKgPerMilli == 10000

WasteType == {"food", "paper_cardboard", "plastic", "glass", "metal", "mixed"}
DisposalMethod == {"landfill", "incineration", "recycling", "composting"}

Waste_EMISSION_FACTORS ==
    [ food            |-> [landfill |-> 5780,  incineration |-> 213, recycling |-> 0,   composting |-> 1160],
      paper_cardboard |-> [landfill |-> 14530, incineration |-> 213, recycling |-> 213, composting |-> 1160],
      plastic         |-> [landfill |-> 330,   incineration |-> 213, recycling |-> 213, composting |-> 213],
      glass           |-> [landfill |-> 12,    incineration |-> 213, recycling |-> 213, composting |-> 213],
      metal           |-> [landfill |-> 12,    incineration |-> 213, recycling |-> 213, composting |-> 213],
      mixed           |-> [landfill |-> 4670,  incineration |-> 213, recycling |-> 213, composting |-> 1160] ]

VALID_WASTE_TYPES == {"food", "paper_cardboard", "plastic", "glass", "metal", "mixed"}
VALID_DISPOSAL_METHODS == {"landfill", "incineration", "recycling", "composting"}

validateWasteItem(item, index) ==
    IF item.wasteType \notin VALID_WASTE_TYPES
    THEN Throw([index |-> index, field |-> "wasteType", what |-> "invalid wasteType"])
    ELSE IF item.disposalMethod \notin VALID_DISPOSAL_METHODS
    THEN Throw([index |-> index, field |-> "disposalMethod", what |-> "invalid disposalMethod"])
    ELSE IF item.quantityG < 0
    THEN Throw([index |-> index, field |-> "quantityG", what |-> "must be a non-negative number"])
    ELSE Ok(TRUE)

\* wasteItems.forEach((item, i) => validateWasteItem(item, i))
RECURSIVE WasteValidateAll(_, _)
WasteValidateAll(wasteItems, i) ==
    IF i > Len(wasteItems) THEN Ok(TRUE)
    ELSE LET v == validateWasteItem(wasteItems[i], i - 1)
         IN IF v.ok THEN WasteValidateAll(wasteItems, i + 1) ELSE v

\* for (const item of wasteItems) { ... } on the three accumulators.
RECURSIVE WasteLoop(_, _, _)
WasteLoop(wasteItems, i, acc) ==
    IF i > Len(wasteItems) THEN acc
    ELSE LET item == wasteItems[i]
             factor == Waste_EMISSION_FACTORS[item.wasteType][item.disposalMethod]
             kgCO2e == Times(item.quantityG, factor)
             typeSoFar == IF MapHas(acc.byTypeMap, item.wasteType)
                          THEN MapGet(acc.byTypeMap, item.wasteType) ELSE 0
             methodSoFar == IF MapHas(acc.byMethodMap, item.disposalMethod)
                            THEN MapGet(acc.byMethodMap, item.disposalMethod) ELSE 0
         IN WasteLoop(wasteItems, i + 1,
                [totalKgCO2e |-> Plus(acc.totalKgCO2e, kgCO2e),
                 byTypeMap |-> MapSet(acc.byTypeMap, item.wasteType, Plus(typeSoFar, kgCO2e)),
                 byMethodMap |-> MapSet(acc.byMethodMap, item.disposalMethod,
                                        Plus(methodSoFar, kgCO2e))])

calculateWasteEmissions(wasteItems) ==
    IF Len(wasteItems) = 0
    THEN Throw([index |-> -1, field |-> "wasteItems", what |-> "must be a non-empty array"])
    ELSE LET valid == WasteValidateAll(wasteItems, 1)
         IN IF ~valid.ok THEN valid
            ELSE LET acc == WasteLoop(wasteItems, 1,
                                [totalKgCO2e |-> 0, byTypeMap |-> <<>>, byMethodMap |-> <<>>])
                 IN Ok([totalKgCO2e |-> Round3(acc.totalKgCO2e, WasteKgPerMilli),
                        byWasteType |->
                            [i \in 1..Len(acc.byTypeMap) |->
                                [wasteType |-> acc.byTypeMap[i].key,
                                 totalKgCO2e |-> acc.byTypeMap[i].value]],
                        byDisposalMethod |->
                            [i \in 1..Len(acc.byMethodMap) |->
                                [disposalMethod |-> acc.byMethodMap[i].key,
                                 totalKgCO2e |-> acc.byMethodMap[i].value]],
                        factorYear |-> 2024])

WasteProbeItems ==
    [ wasteType : WasteType \cup {"electronic"},
      disposalMethod : DisposalMethod \cup {"export"},
      quantityG : {-1, 0, 12345, 40000, NaN, Infinity} ]

WasteUsualItems ==
    { [wasteType |-> "food", disposalMethod |-> "composting", quantityG |-> 40000],
      [wasteType |-> "paper_cardboard", disposalMethod |-> "landfill", quantityG |-> 15001],
      [wasteType |-> "glass", disposalMethod |-> "recycling", quantityG |-> 25000] }

WasteInputs == {<<>>} \cup ListsWith(WasteProbeItems, WasteUsualItems)

CallCalculateWasteEmissions ==
    /\ Callable
    /\ \E wasteItems \in ArgumentsOf("calculateWasteEmissions", WasteInputs) :
        /\ op' = "calculateWasteEmissions"
        /\ input' = wasteItems
        /\ output' = calculateWasteEmissions(wasteItems)
        /\ Logged
        /\ UNCHANGED repositoryVars

(***************************************************************************)
(* Transport calculators: src/src/services/transport/transport.service.ts  *)
(*                                                                         *)
(* Units of the itemized calculator: distanceKm in km, emission factors    *)
(* in 0.00001 kg CO2e per passenger-km, emissions in 0.00001 kg CO2e.      *)
(***************************************************************************)
TransportKgPerMilli == 100

TransportMode == {"car_petrol", "car_electric", "bus", "train", "flight"}
EventPreset == {"local", "regional", "national", "international"}

\* The flight factor with a flight of exactly 3700 km taken for short-haul.
FlightFactorInclusive(distanceKm) == IF distanceKm <= 3700 THEN 18590 ELSE 15110

\* The flight entry of EMISSION_FACTORS: (distanceKm) => ...
FlightFactor(distanceKm) == IF distanceKm < 3700 THEN 18590 ELSE 15110

\* The entries of EMISSION_FACTORS that are numbers.
Transport_EMISSION_FACTORS ==
    [ car_petrol |-> 16450, car_electric |-> 4360, bus |-> 2720, train |-> 3546 ]

\* EMISSION_FACTORS[mode] of a mode that is no key of the table is
\* undefined, which every product it enters turns into NaN: NaN here.
getEmissionFactor(mode, distanceKm) ==
    IF mode = "flight" THEN FlightFactor(distanceKm)
    ELSE IF mode \in DOMAIN Transport_EMISSION_FACTORS THEN Transport_EMISSION_FACTORS[mode]
    ELSE NaN

\* journeys.forEach((j, i) => { ... }); !EMISSION_FACTORS[j.mode] holds
\* exactly of the modes that are no key of the table: no factor is 0.
RECURSIVE validateJourneys(_, _)
validateJourneys(journeys, i) ==
    IF i > Len(journeys) THEN Ok(TRUE)
    ELSE IF journeys[i].distanceKm < 0
    THEN Throw([index |-> i - 1, field |-> "distanceKm", what |-> "must be >= 0"])
    ELSE IF journeys[i].mode \notin TransportMode
    THEN Throw([index |-> i - 1, field |-> "mode", what |-> "unknown mode"])
    ELSE validateJourneys(journeys, i + 1)

\* for (const journey of journeys) { ... }
RECURSIVE TransportLoop(_, _, _)
TransportLoop(journeys, i, acc) ==
    IF i > Len(journeys) THEN acc
    ELSE LET journey == journeys[i]
             factor == getEmissionFactor(journey.mode, journey.distanceKm)
             kgCO2e == Times(journey.distanceKm, factor)
             soFar == IF MapHas(acc.byModeMap, journey.mode)
                      THEN MapGet(acc.byModeMap, journey.mode) ELSE 0
         IN TransportLoop(journeys, i + 1,
                [totalKgCO2e |-> Plus(acc.totalKgCO2e, kgCO2e),
                 byModeMap |-> MapSet(acc.byModeMap, journey.mode, Plus(soFar, kgCO2e))])

calculateTransportEmissions(journeys) ==
    IF Len(journeys) = 0
    THEN Throw([index |-> -1, field |-> "journeys", what |-> "must be a non-empty array"])
    ELSE LET valid == validateJourneys(journeys, 1)
         IN IF ~valid.ok THEN valid
            ELSE LET acc == TransportLoop(journeys, 1, [totalKgCO2e |-> 0, byModeMap |-> <<>>])
                 IN Ok([totalKgCO2e |-> Round3(acc.totalKgCO2e, TransportKgPerMilli),
                        byMode |->
                            [i \in 1..Len(acc.byModeMap) |->
                                [mode |-> acc.byModeMap[i].key,
                                 totalKgCO2e |-> acc.byModeMap[i].value]],
                        factorYear |-> 2024])

JourneyProbes ==
    [ distanceKm : {-1, 0, 15, 3699, 3700, 5500, NaN, Infinity},
      mode : TransportMode \cup {"bicycle"} ]

JourneyUsual ==
    { [distanceKm |-> 8, mode |-> "car_petrol"],
      [distanceKm |-> 120, mode |-> "train"],
      [distanceKm |-> 900, mode |-> "flight"] }

JourneyInputs == {<<>>} \cup ListsWith(JourneyProbes, JourneyUsual)

CallCalculateTransportEmissions ==
    /\ Callable
    /\ \E journeys \in ArgumentsOf("calculateTransportEmissions", JourneyInputs) :
        /\ op' = "calculateTransportEmissions"
        /\ input' = journeys
        /\ output' = calculateTransportEmissions(journeys)
        /\ Logged
        /\ UNCHANGED repositoryVars

(***************************************************************************)
(* Transport estimator (same file).                                        *)
(*                                                                         *)
(* Units: probability in 0.0001, representativeKm in km, factors in        *)
(* 0.00001 kg CO2e per passenger-km, so emissions in 0.000000001 kg CO2e.  *)
(* Ten thousand participants of the international preset emit millions of  *)
(* kg, more units than TLC's integers count, so an amount is a record      *)
(* [kg |-> whole kilograms, frac |-> units below one kilogram].            *)
(***************************************************************************)
\* Units of 0.000000001 kg per kg and per 0.001 kg.
NanoPerKg == 1000000000
NanoPerMilli == 1000000
\* Units of probability in 1.0 and in the tolerance 0.001 of validatePDF.
ProbOne == 10000
ProbTolerance == 10

KgZero == [kg |-> 0, frac |-> 0]
\* The amount that is NaN.
KgNaN == [kg |-> NaN, frac |-> 0]
\* The amount of kg kilograms and frac < 2 kg of units.
KgCarry(kg, frac) ==
    IF frac >= NanoPerKg THEN [kg |-> kg + 1, frac |-> frac - NanoPerKg]
    ELSE [kg |-> kg, frac |-> frac]
KgAdd(a, b) ==
    IF a = KgNaN \/ b = KgNaN THEN KgNaN
    ELSE KgCarry(a.kg + b.kg, a.frac + b.frac)
\* The amount of x * y units, for x and y below 10^9: the product by
\* halves of four digits, as on paper.
KgProduct(x, y) ==
    LET x1 == x \div 10000
        x0 == x % 10000
        y1 == y \div 10000
        y0 == y % 10000
        high == x1 * y1              \* units of 10^8
        mid == x1 * y0 + x0 * y1     \* units of 10^4
        low == x0 * y0
    IN KgCarry((high \div 10) + (mid \div 100000),
               (high % 10) * 100000000 + (mid % 100000) * 10000 + low)
\* Math.round(x * 1000) / 1000 of an amount.
KgRound3(a) ==
    IF a = KgNaN THEN KgNaN
    ELSE KgCarry(a.kg, Round3(a.frac, NanoPerMilli))

\* maxKm is <<>> for Infinity.
Band(minKm, maxKm, probability, representativeKm, mode) ==
    [minKm |-> minKm, maxKm |-> maxKm, probability |-> probability,
     representativeKm |-> representativeKm, mode |-> mode]

\* The preset table with the probability of the last local band lost: the
\* local bands sum to 0.99.
PRESET_PDFS_LocalShort ==
    [ local |->
        << Band(0,   Some(10),  5000, 5,   "car_petrol"),
           Band(10,  Some(50),  3000, 25,  "car_petrol"),
           Band(50,  Some(200), 1500, 100, "train"),
           Band(200, Some(500), 400,  300, "train"),
           Band(500, None,      0,    800, "flight") >>,
      regional |->
        << Band(0,   Some(10),  2000, 5,    "car_petrol"),
           Band(10,  Some(50),  3500, 25,   "car_petrol"),
           Band(50,  Some(200), 3000, 100,  "train"),
           Band(200, Some(500), 1200, 300,  "train"),
           Band(500, None,      300,  1000, "flight") >>,
      national |->
        << Band(0,   Some(10),  1000, 5,    "car_petrol"),
           Band(10,  Some(50),  2000, 25,   "car_petrol"),
           Band(50,  Some(200), 3000, 100,  "train"),
           Band(200, Some(500), 2500, 350,  "train"),
           Band(500, None,      1500, 1500, "flight") >>,
      international |->
        << Band(0,    Some(50),   500,  20,   "car_petrol"),
           Band(50,   Some(200),  1000, 100,  "train"),
           Band(200,  Some(500),  1500, 350,  "train"),
           Band(500,  Some(3700), 3500, 1500, "flight"),
           Band(3700, None,       3500, 7000, "flight") >> ]

PRESET_PDFS ==
    [ local |->
        << Band(0,   Some(10),  5000, 5,   "car_petrol"),
           Band(10,  Some(50),  3000, 25,  "car_petrol"),
           Band(50,  Some(200), 1500, 100, "train"),
           Band(200, Some(500), 400,  300, "train"),
           Band(500, None,      100,  800, "flight") >>,
      regional |->
        << Band(0,   Some(10),  2000, 5,    "car_petrol"),
           Band(10,  Some(50),  3500, 25,   "car_petrol"),
           Band(50,  Some(200), 3000, 100,  "train"),
           Band(200, Some(500), 1200, 300,  "train"),
           Band(500, None,      300,  1000, "flight") >>,
      national |->
        << Band(0,   Some(10),  1000, 5,    "car_petrol"),
           Band(10,  Some(50),  2000, 25,   "car_petrol"),
           Band(50,  Some(200), 3000, 100,  "train"),
           Band(200, Some(500), 2500, 350,  "train"),
           Band(500, None,      1500, 1500, "flight") >>,
      international |->
        << Band(0,    Some(50),   500,  20,   "car_petrol"),
           Band(50,   Some(200),  1000, 100,  "train"),
           Band(200,  Some(500),  1500, 350,  "train"),
           Band(500,  Some(3700), 3500, 1500, "flight"),
           Band(3700, None,       3500, 7000, "flight") >> ]

\* inferEventPreset with the first threshold at 100.
inferEventPresetAt100(participantCount) ==
    IF participantCount < 100 THEN "local"
    ELSE IF participantCount < 5000 THEN "regional"
    ELSE IF participantCount < 10000 THEN "national"
    ELSE "international"

\* inferEventPreset with every threshold on the other side of its boundary.
inferEventPresetInclusive(participantCount) ==
    IF participantCount <= 200 THEN "local"
    ELSE IF participantCount <= 5000 THEN "regional"
    ELSE IF participantCount <= 10000 THEN "national"
    ELSE "international"

\* inferEventPreset keeping its answer in a binding of the module: once it
\* has been called on its own, every later inference repeats that answer.
inferEventPresetRemembering(participantCount) ==
    IF \E i \in 1..Len(calls) : calls[i].op = "inferEventPreset"
    THEN calls[CHOOSE i \in 1..Len(calls) : calls[i].op = "inferEventPreset"].output.result
    ELSE IF participantCount < 200 THEN "local"
    ELSE IF participantCount < 5000 THEN "regional"
    ELSE IF participantCount < 10000 THEN "national"
    ELSE "international"

inferEventPreset(participantCount) ==
    IF participantCount < 200 THEN "local"
    ELSE IF participantCount < 5000 THEN "regional"
    ELSE IF participantCount < 10000 THEN "national"
    ELSE "international"

\* validatePDF with a sum at a distance of exactly 0.001 refused.
validatePDFInclusive(bands) ==
    LET total == SumSeq([i \in 1..Len(bands) |-> bands[i].probability])
        diff == IF total >= ProbOne THEN total - ProbOne ELSE ProbOne - total
    IN IF diff >= ProbTolerance
       THEN Throw([index |-> -1, field |-> "probability", what |-> "must sum to 1.0"])
       ELSE Ok(TRUE)

validatePDF(bands) ==
    LET total == SumSeq([i \in 1..Len(bands) |-> bands[i].probability])
        diff == IF total >= ProbOne THEN total - ProbOne ELSE ProbOne - total
    IN IF diff > ProbTolerance
       THEN Throw([index |-> -1, field |-> "probability", what |-> "must sum to 1.0"])
       ELSE Ok(TRUE)

\* Math.round(participantCount * band.probability)
ParticipantsEstimated(participantCount, band) ==
    (2 * participantCount * band.probability + ProbOne) \div (2 * ProbOne)

\* The emissions of a band computed from its head count rounded to whole
\* participants.
BandKgCO2eOfWholeParticipants(participantCount, band) ==
    LET factor == getEmissionFactor(band.mode, band.representativeKm)
    IN IF factor = NaN THEN KgNaN
       ELSE KgProduct(ParticipantsEstimated(participantCount, band) * ProbOne,
                      band.representativeKm * factor)

\* participantCount * band.probability * band.representativeKm * factor
BandKgCO2e(participantCount, band) ==
    LET factor == getEmissionFactor(band.mode, band.representativeKm)
    IN IF factor = NaN THEN KgNaN
       ELSE KgProduct(participantCount * band.probability, band.representativeKm * factor)

\* for (const band of pdf) { ... }
RECURSIVE EstimateLoop(_, _, _, _)
EstimateLoop(participantCount, pdf, i, acc) ==
    IF i > Len(pdf) THEN acc
    ELSE LET band == pdf[i]
             kgCO2e == BandKgCO2e(participantCount, band)
             soFar == IF MapHas(acc.byModeMap, band.mode)
                      THEN MapGet(acc.byModeMap, band.mode) ELSE KgZero
         IN EstimateLoop(participantCount, pdf, i + 1,
                [totalKgCO2e |-> KgAdd(acc.totalKgCO2e, kgCO2e),
                 byModeMap |-> MapSet(acc.byModeMap, band.mode, KgAdd(soFar, kgCO2e)),
                 assumptions |-> Append(acc.assumptions,
                    [band |-> <<band.minKm, band.maxKm>>,
                     probability |-> band.probability,
                     representativeKm |-> band.representativeKm,
                     mode |-> band.mode,
                     participantsEstimated |-> ParticipantsEstimated(participantCount, band),
                     kgCO2e |-> KgRound3(kgCO2e)])])

\* The active preset with the explicit one ignored.
ActivePresetInferred(explicitPreset, inferredPreset) == inferredPreset

\* explicitPreset ?? inferredPreset
ActivePreset(explicitPreset, inferredPreset) ==
    IF IsDefined(explicitPreset) THEN Get(explicitPreset) ELSE inferredPreset

\* explicitPreset ? "explicit" : "inferred": every preset name is a
\* non-empty string, which JavaScript takes for true.
PresetSource(explicitPreset) ==
    IF IsDefined(explicitPreset) THEN "explicit" ELSE "inferred"

\* options is [preset |-> optional preset, customPDF |-> optional bands].
estimateTransportEmissions(participantCount, options) ==
    IF participantCount <= 0
    THEN Throw([index |-> -1, field |-> "participantCount", what |-> "must be a positive integer"])
    ELSE LET inferredPreset == inferEventPreset(participantCount)
             explicitPreset == options.preset
             activePreset == ActivePreset(explicitPreset, inferredPreset)
             presetSource == PresetSource(explicitPreset)
         IN IF ~IsDefined(options.customPDF) /\ activePreset \notin DOMAIN PRESET_PDFS
            \* PRESET_PDFS[activePreset] is undefined: bands.reduce throws a TypeError
            THEN Throw([index |-> -1, field |-> "preset", what |-> "TypeError"])
            ELSE LET pdf == IF IsDefined(options.customPDF) THEN Get(options.customPDF)
                            ELSE PRESET_PDFS[activePreset]
                     valid == validatePDF(pdf)
                 IN IF ~valid.ok THEN valid
                    ELSE LET acc == EstimateLoop(participantCount, pdf, 1,
                                        [totalKgCO2e |-> KgZero, byModeMap |-> <<>>,
                                         assumptions |-> <<>>])
                         IN Ok([totalKgCO2e |-> KgRound3(acc.totalKgCO2e),
                                byMode |->
                                    [i \in 1..Len(acc.byModeMap) |->
                                        [mode |-> acc.byModeMap[i].key,
                                         totalKgCO2e |-> acc.byModeMap[i].value]],
                                inferredPreset |-> inferredPreset,
                                presetSource |-> presetSource,
                                participantCount |-> participantCount,
                                assumptions |-> acc.assumptions,
                                factorYear |-> 2024])

\* A custom distribution of three bands with the probability of the last
\* band left open.
CustomPDFEnding(probability) ==
    << Band(0,   Some(20),  6000, 10,  "car_petrol"),
       Band(20,  Some(100), 3000, 50,  "train"),
       Band(100, None,      probability, 300, "train") >>

\* The custom distributions a call is given: the one of the service's own
\* example; one whose probabilities sum to 0.95; four whose sums are
\* 0.9989, 0.9991, 1.001 and 1.0011; one of flights on either side of the
\* long-haul threshold; one with a band of a mode that has no factor.
CustomPDFs ==
    { CustomPDFEnding(1000),
      << Band(0,   Some(20),  6000, 10,  "car_petrol"),
         Band(20,  Some(100), 3000, 50,  "train"),
         Band(100, None,      500,  300, "flight") >>,
      CustomPDFEnding(989), CustomPDFEnding(991),
      CustomPDFEnding(1010), CustomPDFEnding(1011),
      << Band(0,    Some(3700), 5000, 3699, "flight"),
         Band(3700, None,       5000, 3700, "flight") >>,
      << Band(0,  Some(20), 6000, 10, "bicycle"),
         Band(20, None,     4000, 50, "train") >> }

ParticipantCounts == {-5, 0, 1, 3, 150, 199, 200, 350, 4999, 5000, 9999, 10000, 12000}

EstimateOptions ==
    [ preset : Opt(EventPreset \cup {"galactic"}), customPDF : Opt(CustomPDFs) ]

CallEstimateTransportEmissions ==
    /\ Callable
    /\ \E call \in ArgumentsOf("estimateTransportEmissions",
                    [participantCount : ParticipantCounts, options : EstimateOptions]) :
        /\ op' = "estimateTransportEmissions"
        /\ input' = call
        /\ output' = estimateTransportEmissions(call.participantCount, call.options)
        /\ Logged
        /\ UNCHANGED repositoryVars

CallInferEventPreset ==
    /\ Callable
    /\ \E participantCount \in ArgumentsOf("inferEventPreset", ParticipantCounts) :
        /\ op' = "inferEventPreset"
        /\ input' = participantCount
        /\ output' = Ok(inferEventPreset(participantCount))
        /\ Logged
        /\ UNCHANGED repositoryVars

(***************************************************************************)
(* Catering calculator: src/unnamed/part_007                               *)
(*                                                                         *)
(* Units: servings in 0.1 serving, factors in 0.001 kg CO2e per serving,   *)
(* emissions in 0.0001 kg CO2e.                                            *)
(***************************************************************************)
CateringKgPerMilli == 10

MEAL_FACTORS ==
    [ vegan |-> 960, vegetarian |-> 1270, pescatarian |-> 1300,
      low_meat |-> 1560, medium_meat |-> 1880, high_meat |-> 2400 ]

BEVERAGE_FACTORS ==
    [ coffee_with_milk |-> 280, coffee_black |-> 40, tea |-> 13,
      juice |-> 100, water_bottle |-> 120, soft_drink |-> 80 ]

SNACK_FACTORS ==
    [ fruit |-> 100, pastry |-> 250, biscuits |-> 200,
      sandwich |-> 1100, buffet_mixed |-> 550, buffet_veg |-> 300 ]

VALID_MEAL_TYPES == DOMAIN MEAL_FACTORS
VALID_BEVERAGE_TYPES == DOMAIN BEVERAGE_FACTORS
VALID_SNACK_TYPES == DOMAIN SNACK_FACTORS

\* validateItem with a serving count of zero refused.
validateItemPositiveServings(item, index) ==
    IF item.category \notin {"meal", "beverage", "snack"}
    THEN Throw([index |-> index, field |-> "category", what |-> "invalid category"])
    ELSE IF item.category = "meal" /\ item.type \notin VALID_MEAL_TYPES
    THEN Throw([index |-> index, field |-> "type", what |-> "invalid meal type"])
    ELSE IF item.category = "beverage" /\ item.type \notin VALID_BEVERAGE_TYPES
    THEN Throw([index |-> index, field |-> "type", what |-> "invalid beverage type"])
    ELSE IF item.category = "snack" /\ item.type \notin VALID_SNACK_TYPES
    THEN Throw([index |-> index, field |-> "type", what |-> "invalid snack type"])
    ELSE IF ~IsFinite(item.servings) \/ item.servings <= 0
    THEN Throw([index |-> index, field |-> "servings", what |-> "must be a non-negative number"])
    ELSE Ok(TRUE)

validateItem(item, index) ==
    IF item.category \notin {"meal", "beverage", "snack"}
    THEN Throw([index |-> index, field |-> "category", what |-> "invalid category"])
    ELSE IF item.category = "meal" /\ item.type \notin VALID_MEAL_TYPES
    THEN Throw([index |-> index, field |-> "type", what |-> "invalid meal type"])
    ELSE IF item.category = "beverage" /\ item.type \notin VALID_BEVERAGE_TYPES
    THEN Throw([index |-> index, field |-> "type", what |-> "invalid beverage type"])
    ELSE IF item.category = "snack" /\ item.type \notin VALID_SNACK_TYPES
    THEN Throw([index |-> index, field |-> "type", what |-> "invalid snack type"])
    ELSE IF ~IsFinite(item.servings) \/ item.servings < 0
    THEN Throw([index |-> index, field |-> "servings", what |-> "must be a non-negative number"])
    ELSE Ok(TRUE)

getFactor(item) ==
    IF item.category = "meal" THEN MEAL_FACTORS[item.type]
    ELSE IF item.category = "beverage" THEN BEVERAGE_FACTORS[item.type]
    ELSE SNACK_FACTORS[item.type]

\* items.forEach((item, i) => validateItem(item, i))
RECURSIVE CateringValidateAll(_, _)
CateringValidateAll(items, i) ==
    IF i > Len(items) THEN Ok(TRUE)
    ELSE LET v == validateItem(items[i], i - 1)
         IN IF v.ok THEN CateringValidateAll(items, i + 1) ELSE v

\* items.map((item) => ({ ... }))
CateringByItem(items) ==
    [i \in 1..Len(items) |->
        [category |-> items[i].category,
         type |-> items[i].type,
         servings |-> items[i].servings,
         kgCO2ePerServing |-> getFactor(items[i]),
         totalKgCO2e |-> Round3(items[i].servings * getFactor(items[i]), CateringKgPerMilli)]]

\* byItem.filter(i => i.category === category).reduce((s, i) => s + i.totalKgCO2e, 0)
CategoryKgCO2e(byItem, category) ==
    SumSeq([i \in 1..Len(byItem) |->
              IF byItem[i].category = category THEN byItem[i].totalKgCO2e ELSE 0])

\* items.filter(i => types.includes(i.type)).reduce((s, i) => s + i.servings, 0)
\* over the items of category "meal".
MealServings(items, types) ==
    SumSeq([i \in 1..Len(items) |->
              IF items[i].category = "meal" /\ items[i].type \in types
              THEN items[i].servings ELSE 0])

\* The notes, each by its kind.
CateringNotes(items, mealsKgCO2e, totalKgCO2e) ==
    LET totalMealServings == MealServings(items, VALID_MEAL_TYPES)
        highMeatServings == MealServings(items, {"high_meat", "medium_meat"})
        plantServings == MealServings(items, {"vegan", "vegetarian"})
    IN (IF totalMealServings > 0
        THEN (IF 2 * highMeatServings > totalMealServings THEN <<"high meat">> ELSE <<>>)
             \o (IF 5 * plantServings > 3 * totalMealServings THEN <<"plant based">> ELSE <<>>)
             \o <<"average meal">>
        ELSE <<>>)
       \o (IF \E i \in 1..Len(items) : items[i].type = "water_bottle"
           THEN <<"bottled water">> ELSE <<>>)
       \o (IF totalKgCO2e > 0 /\ 5 * mealsKgCO2e > 4 * totalKgCO2e
           THEN <<"meals dominate">> ELSE <<>>)
       \o <<"factor provenance">>

calculateCateringEmissions(items) ==
    IF Len(items) = 0
    THEN Throw([index |-> -1, field |-> "items", what |-> "must be a non-empty array"])
    ELSE LET valid == CateringValidateAll(items, 1)
         IN IF ~valid.ok THEN valid
            ELSE LET byItem == CateringByItem(items)
                     mealsKgCO2e == CategoryKgCO2e(byItem, "meal")
                     beveragesKgCO2e == CategoryKgCO2e(byItem, "beverage")
                     snacksKgCO2e == CategoryKgCO2e(byItem, "snack")
                     totalKgCO2e == mealsKgCO2e + beveragesKgCO2e + snacksKgCO2e
                 IN Ok([totalKgCO2e |-> Round3(totalKgCO2e, CateringKgPerMilli),
                        byItem |-> byItem,
                        byCategory |->
                            [meals |-> Round3(mealsKgCO2e, CateringKgPerMilli),
                             beverages |-> Round3(beveragesKgCO2e, CateringKgPerMilli),
                             snacks |-> Round3(snacksKgCO2e, CateringKgPerMilli)],
                        notes |-> CateringNotes(items, mealsKgCO2e, totalKgCO2e)])

CateringProbeItems ==
    [ category : {"meal", "beverage", "snack", "dessert"},
      type : VALID_MEAL_TYPES \cup VALID_BEVERAGE_TYPES \cup VALID_SNACK_TYPES \cup {"cake"},
      servings : {-10, 0, 25, 1200, NaN, Infinity} ]   \* -1, 0, 2.5, 120 servings

CateringUsualItems ==
    { [category |-> "meal", type |-> "vegetarian", servings |-> 1200],
      [category |-> "beverage", type |-> "tea", servings |-> 15],
      [category |-> "snack", type |-> "pastry", servings |-> 2000] }

CateringInputs == {<<>>} \cup ListsWith(CateringProbeItems, CateringUsualItems)

CallCalculateCateringEmissions ==
    /\ Callable
    /\ \E items \in ArgumentsOf("calculateCateringEmissions", CateringInputs) :
        /\ op' = "calculateCateringEmissions"
        /\ input' = items
        /\ output' = calculateCateringEmissions(items)
        /\ Logged
        /\ UNCHANGED repositoryVars

(***************************************************************************)
(* Catering estimator (same file).                                         *)
(*                                                                         *)
(* Units: servings in 0.1 serving, shares in 0.01, so the blended factor   *)
(* in 0.00001 kg CO2e per serving and emissions in 0.000001 kg CO2e.       *)
(* The blended factor is 1.9025 exactly; in binary floating point the sum  *)
(* falls a hair below, so that the code returns it rounded to 1.902 where  *)
(* exact decimals round to 1.903.                                          *)
(***************************************************************************)
CateringFactorPerMilli == 100
CateringEstimatePerMilli == 1000

\* The default diet profile with five equal shares.
DEFAULT_DIET_PROFILE_Equal ==
    << [type |-> "high_meat",   share |-> 20],
       [type |-> "medium_meat", share |-> 20],
       [type |-> "low_meat",    share |-> 20],
       [type |-> "vegetarian",  share |-> 20],
       [type |-> "vegan",       share |-> 20] >>

DEFAULT_DIET_PROFILE ==
    << [type |-> "high_meat",   share |-> 40],
       [type |-> "medium_meat", share |-> 25],
       [type |-> "low_meat",    share |-> 15],
       [type |-> "vegetarian",  share |-> 15],
       [type |-> "vegan",       share |-> 5] >>

estimateCateringEmissions(servings) ==
    IF ~IsFinite(servings) \/ servings <= 0
    THEN Throw([index |-> -1, field |-> "servings", what |-> "must be a positive number"])
    ELSE LET kgCO2ePerServing ==
                SumSeq([i \in 1..Len(DEFAULT_DIET_PROFILE) |->
                          MEAL_FACTORS[DEFAULT_DIET_PROFILE[i].type]
                            * DEFAULT_DIET_PROFILE[i].share])
             totalKgCO2e == Round3(servings * kgCO2ePerServing, CateringEstimatePerMilli)
         IN Ok([totalKgCO2e |-> totalKgCO2e,
                kgCO2ePerServing |-> Round3(kgCO2ePerServing, CateringFactorPerMilli)])

\* -1, 0, 0.5, 1, 3, 50, 200, 300 and 500 servings.
EstimateServings == {-10, 0, 5, 10, 30, 500, 2000, 3000, 5000, NaN, Infinity}

CallEstimateCateringEmissions ==
    /\ Callable
    /\ \E servings \in ArgumentsOf("estimateCateringEmissions", EstimateServings) :
        /\ op' = "estimateCateringEmissions"
        /\ input' = servings
        /\ output' = estimateCateringEmissions(servings)
        /\ Logged
        /\ UNCHANGED repositoryVars

(***************************************************************************)
(* Virtual event power calculator:                                         *)
(* src/src/services/virtual-power/virtual-power.service.ts                 *)
(*                                                                         *)
(* The model holds the validation, the resolution of the participant       *)
(* segments and the device layer computed from them; the network and       *)
(* data-centre layers and the notes are left out of the result.            *)
(*                                                                         *)
(* Units: durationHours in 0.5 h, device power in W, so device energy in   *)
(* 0.0005 kWh; grid factors in 0.001 kg CO2e per kWh, so device emissions  *)
(* in 0.0000005 kg CO2e.                                                   *)
(***************************************************************************)
DeviceKwhPerMilli == 2
DeviceKgPerMilli == 2000

DEVICE_WATTS ==
    [ laptop |-> 30, desktop |-> 100, smartphone |-> 3, tablet |-> 7,
      smart_tv |-> 90, conference_room |-> 200 ]

\* GRID_FACTORS.nigeria
GRID_FACTORS_nigeria == 431

DEFAULT_SEGMENT_PROFILE ==
    << [count |-> 60, device |-> "laptop",     network |-> "fixed"],
       [count |-> 20, device |-> "smartphone", network |-> "mobile_4g"],
       [count |-> 15, device |-> "desktop",    network |-> "fixed"],
       [count |-> 5,  device |-> "tablet",     network |-> "fixed"] >>

SegmentTotal(segments) == SumSeq([i \in 1..Len(segments) |-> segments[i].count])

\* Math.round((count / total) * participantCount): NaN when total is 0 and
\* so is count.
ScaledCount(count, total, participantCount) ==
    IF total = 0 THEN (IF count = 0 \/ participantCount = 0 THEN NaN ELSE Infinity)
    ELSE (2 * count * participantCount + total) \div (2 * total)

\* segments.map((seg) => ({ ...seg, count: Math.round(...) }))
ScaledSegments(segments, participantCount) ==
    [i \in 1..Len(segments) |->
        [segments[i] EXCEPT !.count =
            ScaledCount(segments[i].count, SegmentTotal(segments), participantCount)]]

\* segments is <<>> when undefined, << list >> when supplied.
resolveSegments(participantCount, segments) ==
    IF ~IsDefined(segments) \/ Len(Get(segments)) = 0
    THEN ScaledSegments(DEFAULT_SEGMENT_PROFILE, participantCount)
    ELSE IF SegmentTotal(Get(segments)) # participantCount
    THEN ScaledSegments(Get(segments), participantCount)
    ELSE Get(segments)

\* for (const seg of segments) { ... deviceKwh += kwh; }: NaN once a count
\* is NaN or Infinity.
DeviceKwh(segments, durationHours) ==
    IF \E i \in 1..Len(segments) : ~IsFinite(segments[i].count) THEN NaN
    ELSE SumSeq([i \in 1..Len(segments) |->
                    DEVICE_WATTS[segments[i].device] * durationHours * segments[i].count])

calculateVirtualPowerEmissions(in) ==
    IF in.participantCount <= 0
    THEN Throw([index |-> -1, field |-> "participantCount", what |-> "must be a positive number"])
    ELSE IF in.durationHours <= 0
    THEN Throw([index |-> -1, field |-> "durationHours", what |-> "must be a positive number"])
    ELSE LET participantGridFactor == IF IsDefined(in.participantGridFactor)
                                      THEN Get(in.participantGridFactor)
                                      ELSE GRID_FACTORS_nigeria
             segments == resolveSegments(in.participantCount, in.participantSegments)
             deviceKwh == DeviceKwh(segments, in.durationHours)
             deviceKgCO2e == IF IsFinite(deviceKwh) THEN deviceKwh * participantGridFactor
                             ELSE NaN
         IN Ok([devices |->
                    [totalKwh |-> IF IsFinite(deviceKwh)
                                  THEN Round3(deviceKwh, DeviceKwhPerMilli) ELSE NaN,
                     totalKgCO2e |-> IF IsFinite(deviceKgCO2e)
                                     THEN Round3(deviceKgCO2e, DeviceKgPerMilli) ELSE NaN,
                     \* the detail names every segment as count x device
                     detail |-> [i \in 1..Len(segments) |->
                                    [count |-> segments[i].count,
                                     device |-> segments[i].device]]],
                participantGridFactor |-> participantGridFactor,
                deviceProfile |-> IF IsDefined(in.participantSegments)
                                  THEN "user-provided" ELSE "default profile"])

SegmentProbes ==
    [ count : {0, 1, 50, 350}, device : {"laptop", "desktop"}, network : {"fixed"} ]

SegmentLists == UNION {SeqsOfLen(SegmentProbes, n) : n \in 0..MaxLen}

VirtualPowerInputs ==
    [ participantCount : {-1, 0, 1, 2, 10, 100, 400, 500},
      durationHours : {0, 1, 8},                       \* 0, 0.5 and 4 hours
      participantGridFactor : Opt({490}),
      participantSegments : Opt(SegmentLists) ]

CallCalculateVirtualPowerEmissions ==
    /\ Callable
    /\ \E in \in ArgumentsOf("calculateVirtualPowerEmissions", VirtualPowerInputs) :
        /\ op' = "calculateVirtualPowerEmissions"
        /\ input' = in
        /\ output' = calculateVirtualPowerEmissions(in)
        /\ Logged
        /\ UNCHANGED repositoryVars

(***************************************************************************)
(* Co2CalculationService: src/unnamed/part_006                             *)
(*                                                                         *)
(* Units of the input record: waste_kg in kg, in whole thousands so that   *)
(* waste_kg / 1_000 is a whole number of the waste calculator's grams;     *)
(* energy_kwh in the power calculator's 0.0005 kWh; catering_meals in the  *)
(* catering estimator's 0.1 serving; total_co2 in 0.001 kg CO2e.  Every    *)
(* entry of the breakdown is in the unit of the calculator it comes from.  *)
(***************************************************************************)
\* The four calls of calculate, in its order; the first that throws ends it.
Co2Breakdown(emissionData) ==
    LET wasteCo2 == calculateWasteEmissions(
                        << [wasteType |-> "mixed", disposalMethod |-> "recycling",
                            quantityG |-> emissionData.waste_kg \div 1000] >>)
        transportCo2 == estimateTransportEmissions(emissionData.num_participants,
                            [preset |-> None, customPDF |-> None])
        powerCo2 == calculatePowerEmissions(
                        << [source |-> "grid_electricity",
                            totalKwh |-> Some(emissionData.energy_kwh),
                            durationHours |-> None, loadKw |-> None,
                            participantCount |-> None] >>)
        cateringCo2 == estimateCateringEmissions(emissionData.catering_meals)
    IN IF ~wasteCo2.ok THEN wasteCo2
       ELSE IF ~transportCo2.ok THEN transportCo2
       ELSE IF ~powerCo2.ok THEN powerCo2
       ELSE IF ~cateringCo2.ok THEN cateringCo2
       ELSE Ok([energy |-> powerCo2.result.totalKgCO2e,
                travel |-> transportCo2.result.totalKgCO2e,
                catering |-> cateringCo2.result.totalKgCO2e,
                waste |-> wasteCo2.result.totalKgCO2e])

\* calculate with total_co2 recomputed as the sum of the breakdown.
calculateSummingBreakdown(emissionData) ==
    LET breakdown == Co2Breakdown(emissionData)
    IN IF ~breakdown.ok THEN breakdown
       ELSE Ok([total_co2 |->
                    (breakdown.result.energy \div PowerKgPerMilli)
                      + breakdown.result.travel.kg * 1000
                      + (breakdown.result.travel.frac \div NanoPerMilli)
                      + (breakdown.result.catering \div CateringEstimatePerMilli)
                      + (breakdown.result.waste \div WasteKgPerMilli),
                breakdown |-> breakdown.result])

calculate(emissionData) ==
    LET breakdown == Co2Breakdown(emissionData)
    IN IF ~breakdown.ok THEN breakdown
       ELSE Ok([total_co2 |-> emissionData.total_co2,
                breakdown |-> breakdown.result])

\* EventService.validateCreateEventPayload on the numeric fields the
\* composer reads (src/unnamed/part_008, lines 9-41); attendance_count is
\* what the composer is given as num_participants, catering_meals is in 0.1.
validateCreateEventPayload(in) ==
    IF in.num_participants < 0
    THEN Throw([field |-> "attendance_count", what |-> "must be a non-negative integer"])
    ELSE IF ~IsFinite(in.energy_kwh) \/ in.energy_kwh < 0
    THEN Throw([field |-> "energy_kwh", what |-> "must be a non-negative number"])
    ELSE IF ~IsFinite(in.catering_meals) \/ in.catering_meals % 10 # 0 \/ in.catering_meals < 0
    THEN Throw([field |-> "catering_meals", what |-> "must be a non-negative integer"])
    ELSE IF ~IsFinite(in.waste_kg) \/ in.waste_kg < 0
    THEN Throw([field |-> "waste_kg", what |-> "must be a non-negative number"])
    ELSE Ok(TRUE)

EmissionDataRows ==
    [ waste_kg : {-1000, 0, 50000, 12345000},
      num_participants : {0, 150, 350},
      energy_kwh : {-2000, 0, 246913, 400000},     \* -1, 0, 123.4565, 200 kWh
      catering_meals : {0, 2000, 3000},            \* 0, 200, 300 meals
      total_co2 : {0, 1000, 612345} ]              \* 0, 1 and 612.345 kg

CallCalculate ==
    /\ Callable
    /\ \E emissionData \in ArgumentsOf("calculate", EmissionDataRows) :
        /\ op' = "calculate"
        /\ input' = emissionData
        /\ output' = calculate(emissionData)
        /\ Logged
        /\ UNCHANGED repositoryVars

(***************************************************************************)
(* Event repository: src/unnamed/part_004.                                 *)
(*                                                                         *)
(* createEventWithEmissionData is an async function of three awaited       *)
(* requests to the database: insert the event, insert its emission data,   *)
(* and, when the second insert fails, delete the event again.  Each        *)
(* request is one step; calls of several HTTP requests interleave at the   *)
(* awaits.  A request either takes effect and answers with its row, or     *)
(* answers with an error and leaves its table as it was.                   *)
(***************************************************************************)
Requests == 1..MaxRequests

\* What a call is given: the fields the two inserts store.
CreateEventRequests ==
    { [attendance_count |-> 0,   energy_kwh |-> 0,   travel_km |-> 0,
       catering_meals |-> 0,   waste_kg |-> 0],
      [attendance_count |-> 150, energy_kwh |-> 200, travel_km |-> 1200,
       catering_meals |-> 300, waste_kg |-> 50],
      [attendance_count |-> 12000, energy_kwh |-> 5000, travel_km |-> 0,
       catering_meals |-> 9000, waste_kg |-> 800] }

\* The call enters the function and sends the first insert.
CreateEventWithEmissionData(r) ==
    /\ requests[r].pc = "idle"
    /\ \E request \in CreateEventRequests :
          requests' = [requests EXCEPT ![r] = [pc |-> "insertEvent", input |-> request]]
    /\ UNCHANGED <<events, event_emission_data>>
    /\ UNCHANGED calculatorVars

\* await supabase.from('events').insert({...}).select('*').single(), and
\* the throw on eventError.  The generated id of the row is the number of
\* the call that inserted it.
InsertEvent(r) ==
    /\ requests[r].pc = "insertEvent"
    /\ \E eventError \in BOOLEAN :
          IF eventError
          THEN /\ requests' = [requests EXCEPT ![r].pc = "thrown"]
               /\ UNCHANGED events
          ELSE /\ events' = events \cup
                    {[id |-> r, attendance_count |-> requests[r].input.attendance_count]}
               /\ requests' = [requests EXCEPT ![r].pc = "insertEmissionData"]
    /\ UNCHANGED event_emission_data
    /\ UNCHANGED calculatorVars

\* await supabase.from('event_emission_data').insert({...}).select('*')
\* .single(): on success the function returns both rows.
InsertEmissionData(r) ==
    /\ requests[r].pc = "insertEmissionData"
    /\ \E emissionError \in BOOLEAN :
          IF emissionError
          THEN /\ requests' = [requests EXCEPT ![r].pc = "deleteEvent"]
               /\ UNCHANGED event_emission_data
          ELSE /\ event_emission_data' = event_emission_data \cup
                    {[event_id |-> r,
                      energy_kwh |-> requests[r].input.energy_kwh,
                      travel_km |-> requests[r].input.travel_km,
                      catering_meals |-> requests[r].input.catering_meals,
                      waste_kg |-> requests[r].input.waste_kg,
                      total_co2 |-> 0]}
               /\ requests' = [requests EXCEPT ![r].pc = "returned"]
    /\ UNCHANGED events
    /\ UNCHANGED calculatorVars

\* await supabase.from('events').delete().eq('id', event.id), whose answer
\* is not looked at, and the throw that follows it.
DeleteEvent(r) ==
    /\ requests[r].pc = "deleteEvent"
    /\ \E deleteError \in BOOLEAN :
          events' = IF deleteError THEN events ELSE {e \in events : e.id # r}
    /\ requests' = [requests EXCEPT ![r].pc = "thrown"]
    /\ UNCHANGED event_emission_data
    /\ UNCHANGED calculatorVars

(***************************************************************************)
(* The system                                                              *)
(***************************************************************************)
Init ==
    /\ op = "idle"
    /\ input = <<>>
    /\ output = <<>>
    /\ calls = <<>>
    /\ events = {}
    /\ event_emission_data = {}
    /\ requests = [r \in Requests |-> [pc |-> "idle", input |-> <<>>]]

Next ==
    \/ CallCalculatePowerEmissions
    \/ CallCalculateWasteEmissions
    \/ CallCalculateTransportEmissions
    \/ CallEstimateTransportEmissions
    \/ CallInferEventPreset
    \/ CallCalculateCateringEmissions
    \/ CallEstimateCateringEmissions
    \/ CallCalculateVirtualPowerEmissions
    \/ CallCalculate

Spec == Init /\ [][Next]_vars

\* The repository on its own: calls of createEventWithEmissionData, step
\* by step.
NextRepository ==
    \E r \in Requests :
        \/ CreateEventWithEmissionData(r)
        \/ InsertEvent(r)
        \/ InsertEmissionData(r)
        \/ DeleteEvent(r)

SpecRepository == Init /\ [][NextRepository]_vars

(***************************************************************************)
(* Properties                                                              *)
(***************************************************************************)
IsCall(name) == op = name
Succeeded(name) == op = name /\ output.ok

\* The sum of field totalKgCO2e over a breakdown of integer amounts.
SumKgCO2e(breakdown) ==
    SumSeq([i \in 1..Len(breakdown) |-> breakdown[i].totalKgCO2e])

\* The sum of field totalKgCO2e over a breakdown of [kg, frac] amounts.
RECURSIVE KgSum(_)
KgSum(amounts) ==
    IF amounts = <<>> THEN KgZero ELSE KgAdd(Head(amounts), KgSum(Tail(amounts)))
KgSumKgCO2e(breakdown) ==
    KgSum([i \in 1..Len(breakdown) |-> breakdown[i].totalKgCO2e])

IsMultiple(x, perMilli) == x % perMilli = 0

----------------------------------------------------------------------------
\* The energy of an entry by the stated priority: totalKwh, else
\* durationHours x loadKw, else durationHours x the headcount-estimated load.
PriorityKwh(entry) ==
    IF IsDefined(entry.totalKwh) THEN Get(entry.totalKwh)
    ELSE IF IsDefined(entry.loadKw) THEN Times(Get(entry.durationHours), Get(entry.loadKw))
    ELSE Times(Get(entry.durationHours), estimateLoadKw(Get(entry.participantCount)).loadKw)

PriorityKwhOfSource(entries, source) ==
    SumSeq([i \in 1..Len(entries) |->
              IF entries[i].source = source THEN PriorityKwh(entries[i]) ELSE 0])

\* C1: in every successful result of calculatePowerEmissions the energy of
\* each source is the sum, rounded to three decimals, of its entries'
\* energies resolved by priority: totalKwh when present, whatever the other
\* fields hold; else durationHours x loadKw, whatever participantCount
\* holds; else durationHours x the headcount-estimated load.
C1_ResolutionPriority ==
    Succeeded("calculatePowerEmissions") =>
        \A i \in 1..Len(output.result.bySource) :
            output.result.bySource[i].totalKwh =
                Round3(PriorityKwhOfSource(input, output.result.bySource[i].source),
                       PowerKwhPerMilli)

\* A successful call with an entry that supplies totalKwh, durationHours and
\* loadKw, where durationHours x loadKw is another energy than totalKwh.
C1_Witness ==
    /\ Succeeded("calculatePowerEmissions")
    /\ \E i \in 1..Len(input) :
        /\ IsDefined(input[i].totalKwh)
        /\ IsDefined(input[i].durationHours) /\ Get(input[i].durationHours) > 0
        /\ IsDefined(input[i].loadKw) /\ Get(input[i].loadKw) > 0
        /\ Get(input[i].totalKwh) # Get(input[i].durationHours) * Get(input[i].loadKw)

----------------------------------------------------------------------------
\* An entry carrying a negative totalKwh, durationHours or loadKw, or a
\* participantCount <= 0.
HasBadField(entry) ==
    \/ IsDefined(entry.totalKwh) /\ Get(entry.totalKwh) < 0
    \/ IsDefined(entry.durationHours) /\ Get(entry.durationHours) < 0
    \/ IsDefined(entry.loadKw) /\ Get(entry.loadKw) < 0
    \/ IsDefined(entry.participantCount) /\ Get(entry.participantCount) <= 0

\* C2: calculatePowerEmissions fails whenever any entry carries a negative
\* totalKwh, durationHours or loadKw or a participantCount <= 0, whichever
\* resolution path the entry takes.
C2_BadFieldAlwaysRejected ==
    IsCall("calculatePowerEmissions") =>
        ((\E i \in 1..Len(input) : HasBadField(input[i])) => ~output.ok)

----------------------------------------------------------------------------
\* C3: in every successful result of calculateWasteEmissions, totalKgCO2e is
\* the sum of the byWasteType entries and the sum of the byDisposalMethod
\* entries.
C3_WasteTotalIsSumOfBreakdowns ==
    Succeeded("calculateWasteEmissions") =>
        /\ output.result.totalKgCO2e = SumKgCO2e(output.result.byWasteType)
        /\ output.result.totalKgCO2e = SumKgCO2e(output.result.byDisposalMethod)

----------------------------------------------------------------------------
\* C4: in every successful result of calculateTransportEmissions and of
\* estimateTransportEmissions, totalKgCO2e is the sum of the byMode entries.
C4_TransportTotalIsSumOfModes ==
    /\ Succeeded("calculateTransportEmissions") =>
            output.result.totalKgCO2e = SumKgCO2e(output.result.byMode)
    /\ Succeeded("estimateTransportEmissions") =>
            output.result.totalKgCO2e = KgSumKgCO2e(output.result.byMode)

----------------------------------------------------------------------------
\* C5: in every successful result of calculatePowerEmissions, totalKgCO2e is
\* the sum of bySource[].totalKgCO2e and totalKwh the sum of
\* bySource[].totalKwh; in every successful result of
\* calculateCateringEmissions, totalKgCO2e is meals + beverages + snacks of
\* byCategory and the sum of byItem[].totalKgCO2e.
C5_PowerAndCateringTotalsAreSums ==
    /\ Succeeded("calculatePowerEmissions") =>
        /\ output.result.totalKgCO2e = SumKgCO2e(output.result.bySource)
        /\ output.result.totalKwh =
              SumSeq([i \in 1..Len(output.result.bySource) |->
                        output.result.bySource[i].totalKwh])
    /\ Succeeded("calculateCateringEmissions") =>
        /\ output.result.totalKgCO2e =
              output.result.byCategory.meals + output.result.byCategory.beverages
                + output.result.byCategory.snacks
        /\ output.result.totalKgCO2e = SumKgCO2e(output.result.byItem)

\* A successful power result over two sources, one of them fed by an entry
\* whose energy and emissions are no multiples of 0.001.
C5_Witness ==
    /\ Succeeded("calculatePowerEmissions")
    /\ Len(output.result.bySource) >= 2
    /\ \E i \in 1..Len(input) :
        /\ input[i].source = "grid_electricity"
        /\ ~IsMultiple(PriorityKwh(input[i]), PowerKwhPerMilli)
        /\ IsFinite(PriorityKwh(input[i]))
        /\ ~IsMultiple(PriorityKwh(input[i]) * 431, PowerKgPerMilli)

----------------------------------------------------------------------------
\* C6: every kg CO2e figure of a calculator result, the grand total and
\* every breakdown entry, is a multiple of 0.001.
C6_EveryFigureRounded ==
    /\ Succeeded("calculateWasteEmissions") =>
        /\ IsMultiple(output.result.totalKgCO2e, WasteKgPerMilli)
        /\ \A i \in 1..Len(output.result.byWasteType) :
              IsMultiple(output.result.byWasteType[i].totalKgCO2e, WasteKgPerMilli)
        /\ \A i \in 1..Len(output.result.byDisposalMethod) :
              IsMultiple(output.result.byDisposalMethod[i].totalKgCO2e, WasteKgPerMilli)
    /\ Succeeded("calculateTransportEmissions") =>
        /\ IsMultiple(output.result.totalKgCO2e, TransportKgPerMilli)
        /\ \A i \in 1..Len(output.result.byMode) :
              IsMultiple(output.result.byMode[i].totalKgCO2e, TransportKgPerMilli)
    /\ Succeeded("estimateTransportEmissions") =>
        /\ IsMultiple(output.result.totalKgCO2e.frac, NanoPerMilli)
        /\ \A i \in 1..Len(output.result.byMode) :
              IsMultiple(output.result.byMode[i].totalKgCO2e.frac, NanoPerMilli)
    /\ Succeeded("calculatePowerEmissions") =>
        /\ IsMultiple(output.result.totalKgCO2e, PowerKgPerMilli)
        /\ \A i \in 1..Len(output.result.bySource) :
              IsMultiple(output.result.bySource[i].totalKgCO2e, PowerKgPerMilli)
    /\ Succeeded("calculateCateringEmissions") =>
        /\ IsMultiple(output.result.totalKgCO2e, CateringKgPerMilli)
        /\ IsMultiple(output.result.byCategory.meals, CateringKgPerMilli)
        /\ IsMultiple(output.result.byCategory.beverages, CateringKgPerMilli)
        /\ IsMultiple(output.result.byCategory.snacks, CateringKgPerMilli)
        /\ \A i \in 1..Len(output.result.byItem) :
              IsMultiple(output.result.byItem[i].totalKgCO2e, CateringKgPerMilli)

----------------------------------------------------------------------------
\* The entries each calculator's own checks reject: an unknown category
\* value, a negative quantity in a field the entry is resolved from, no
\* resolution path.
InvalidPowerEntry(entry) ==
    \/ entry.source \notin PowerSource
    \/ IF IsDefined(entry.totalKwh) THEN Get(entry.totalKwh) < 0
       ELSE \/ ~IsDefined(entry.durationHours)
            \/ Get(entry.durationHours) < 0
            \/ IF IsDefined(entry.loadKw) THEN Get(entry.loadKw) < 0
               ELSE \/ ~IsDefined(entry.participantCount)
                    \/ Get(entry.participantCount) <= 0

InvalidWasteItem(item) ==
    \/ item.wasteType \notin WasteType
    \/ item.disposalMethod \notin DisposalMethod
    \/ item.quantityG < 0

InvalidJourney(journey) ==
    \/ journey.distanceKm < 0
    \/ journey.mode \notin TransportMode

InvalidCateringItem(item) ==
    \/ item.category \notin {"meal", "beverage", "snack"}
    \/ item.category = "meal" /\ item.type \notin DOMAIN MEAL_FACTORS
    \/ item.category = "beverage" /\ item.type \notin DOMAIN BEVERAGE_FACTORS
    \/ item.category = "snack" /\ item.type \notin DOMAIN SNACK_FACTORS
    \/ ~IsFinite(item.servings)
    \/ item.servings < 0

\* C7: in each itemized calculator a call whose input holds an invalid
\* entry, at any position, ends in an error and yields no result.
C7_InvalidEntryAbortsCall ==
    /\ IsCall("calculatePowerEmissions") =>
        ((\E i \in 1..Len(input) : InvalidPowerEntry(input[i])) => ~output.ok)
    /\ IsCall("calculateWasteEmissions") =>
        ((\E i \in 1..Len(input) : InvalidWasteItem(input[i])) => ~output.ok)
    /\ IsCall("calculateTransportEmissions") =>
        ((\E i \in 1..Len(input) : InvalidJourney(input[i])) => ~output.ok)
    /\ IsCall("calculateCateringEmissions") =>
        ((\E i \in 1..Len(input) : InvalidCateringItem(input[i])) => ~output.ok)

\* A power call that failed on its last entry, after a valid first entry.
C7_Witness ==
    /\ IsCall("calculatePowerEmissions")
    /\ Len(input) >= 2
    /\ ~InvalidPowerEntry(input[1])
    /\ InvalidPowerEntry(input[Len(input)])
    /\ input[Len(input)].source \in PowerSource
    /\ ~output.ok

----------------------------------------------------------------------------
\* The bands a result was computed from, read off its assumptions.
BandsUsed(result) ==
    [i \in 1..Len(result.assumptions) |->
        Band(result.assumptions[i].band[1], result.assumptions[i].band[2],
             result.assumptions[i].probability,
             result.assumptions[i].representativeKm,
             result.assumptions[i].mode)]

\* C8: estimateTransportEmissions without customPDF computes from the bands
\* of the explicit preset when one is supplied, and reports presetSource
\* "explicit"; from the bands of the count-inferred preset otherwise, and
\* reports presetSource "inferred".
C8_ExplicitPresetSelectsBands ==
    (Succeeded("estimateTransportEmissions") /\ ~IsDefined(input.options.customPDF)) =>
        IF IsDefined(input.options.preset)
        THEN /\ BandsUsed(output.result) = PRESET_PDFS[Get(input.options.preset)]
             /\ output.result.presetSource = "explicit"
        ELSE /\ BandsUsed(output.result) =
                    PRESET_PDFS[inferEventPreset(input.participantCount)]
             /\ output.result.presetSource = "inferred"

\* A result computed with an explicit preset that the count does not infer.
C8_Witness ==
    /\ Succeeded("estimateTransportEmissions")
    /\ ~IsDefined(input.options.customPDF)
    /\ input.participantCount = 150
    /\ input.options.preset = Some("national")
    /\ output.result.inferredPreset # "national"

----------------------------------------------------------------------------
\* The preset whose bands a call without customPDF uses.
PresetUsed(call) ==
    IF IsDefined(call.options.preset) THEN Get(call.options.preset)
    ELSE inferEventPreset(call.participantCount)

\* The presets a result names: inferredPreset is its only field that holds
\* a preset (presetSource holds "inferred" or "explicit").
PresetsRecorded(result) == {result.inferredPreset}

\* C9: the result of estimateTransportEmissions records the preset whose
\* bands were used, also when it is not the inferred one.
C9_UsedPresetRecorded ==
    (Succeeded("estimateTransportEmissions") /\ ~IsDefined(input.options.customPDF)) =>
        PresetUsed(input) \in PresetsRecorded(output.result)

----------------------------------------------------------------------------
\* C10 as stated: for 150 participants the count-inferred preset is
\* "regional".
C10_Original_150IsRegional ==
    /\ (Succeeded("estimateTransportEmissions") /\ input.participantCount = 150) =>
            output.result.inferredPreset = "regional"
    /\ (IsCall("inferEventPreset") /\ input = 150) => output.result = "regional"

\* C10, amended: for 150 participants the count-inferred preset is "local",
\* so estimate(150, preset = "national") overrides a local default and
\* reports inferredPreset = local.
C10_150IsLocal ==
    /\ (Succeeded("estimateTransportEmissions") /\ input.participantCount = 150) =>
            output.result.inferredPreset = "local"
    /\ (IsCall("inferEventPreset") /\ input = 150) => output.result = "local"

\* estimate(150, preset = "national") has returned.
C10_Witness ==
    /\ Succeeded("estimateTransportEmissions")
    /\ input.participantCount = 150
    /\ input.options.preset = Some("national")
    /\ output.result.presetSource = "explicit"
    /\ output.result.inferredPreset = "local"

----------------------------------------------------------------------------
\* The preset the four stated thresholds give a count.
PresetByThresholds(count) ==
    CHOOSE preset \in EventPreset :
        \/ preset = "local" /\ count < 200
        \/ preset = "regional" /\ 200 <= count /\ count < 5000
        \/ preset = "national" /\ 5000 <= count /\ count < 10000
        \/ preset = "international" /\ count >= 10000

\* C11: inferEventPreset gives every positive count the preset of the four
\* thresholds: local below 200, regional from 200 below 5000, national from
\* 5000 below 10000, international from 10000; the estimator reports the
\* same preset as inferredPreset.
C11_FourThresholds ==
    /\ (IsCall("inferEventPreset") /\ input > 0) =>
            output.result = PresetByThresholds(input)
    /\ Succeeded("estimateTransportEmissions") =>
            output.result.inferredPreset = PresetByThresholds(input.participantCount)

\* inferEventPreset has answered for a count on a boundary: the first count
\* of regional, of national or of international.
C11_Witness ==
    /\ IsCall("inferEventPreset")
    /\ \/ input = 200 /\ output.result = "regional"
       \/ input = 5000 /\ output.result = "national"
       \/ input = 10000 /\ output.result = "international"

----------------------------------------------------------------------------
\* The distance of a sum of probabilities from 1.0.
ProbabilityOff(bands) ==
    LET total == SumSeq([i \in 1..Len(bands) |-> bands[i].probability])
    IN IF total >= ProbOne THEN total - ProbOne ELSE ProbOne - total

IsDistributionError(result) == ~result.ok /\ result.error.field = "probability"

\* C12: the band probabilities of each built-in preset sum to 1.0 within
\* 0.001, and a call of estimateTransportEmissions with a positive count
\* and no customPDF never ends in a distribution error.
C12_PresetsSumToOne ==
    /\ \A preset \in EventPreset : ProbabilityOff(PRESET_PDFS[preset]) <= ProbTolerance
    /\ (IsCall("estimateTransportEmissions") /\ input.participantCount > 0
            /\ ~IsDefined(input.options.customPDF))
        => ~IsDistributionError(output)

\* A call without customPDF whose bands, those of the local preset, were
\* validated and used.
C12_Witness ==
    /\ Succeeded("estimateTransportEmissions")
    /\ ~IsDefined(input.options.customPDF)
    /\ ~IsDefined(input.options.preset)
    /\ input.participantCount = 199
    /\ Len(output.result.assumptions) = 5

----------------------------------------------------------------------------
\* C13: a call of estimateTransportEmissions with a customPDF ends in a
\* distribution error exactly when the sum of the band probabilities is
\* more than 0.001 away from 1.0; otherwise the call succeeds and computes
\* from the bands of the customPDF, whatever preset is supplied with it.
C13_CustomPDFTolerance ==
    (IsCall("estimateTransportEmissions") /\ input.participantCount > 0
        /\ IsDefined(input.options.customPDF))
    => LET customPDF == Get(input.options.customPDF)
       IN IF ProbabilityOff(customPDF) > ProbTolerance
          THEN IsDistributionError(output)
          ELSE output.ok /\ BandsUsed(output.result) = customPDF

\* A call that supplied a preset along with a customPDF summing to 1.001,
\* and computed from the customPDF.
C13_Witness ==
    /\ Succeeded("estimateTransportEmissions")
    /\ input.options.preset = Some("national")
    /\ input.options.customPDF = Some(CustomPDFEnding(1010))
    /\ BandsUsed(output.result) # PRESET_PDFS.national

----------------------------------------------------------------------------
\* The bands a call computes from.
BandsOfCall(call) ==
    IF IsDefined(call.options.customPDF) THEN Get(call.options.customPDF)
    ELSE PRESET_PDFS[PresetUsed(call)]

\* participantCount x probability x representativeKm x factor(mode,
\* representativeKm) of a band.
BandTerm(participantCount, band) ==
    IF band.mode \notin TransportMode THEN KgNaN
    ELSE KgProduct(participantCount * band.probability,
                   band.representativeKm * getEmissionFactor(band.mode, band.representativeKm))

\* C14: the totalKgCO2e of estimateTransportEmissions is the sum of the
\* band terms participantCount x probability x representativeKm x factor,
\* rounded to three decimals; assumptions has one entry per band, in band
\* order, whose kgCO2e is the band's term rounded to three decimals.
C14_EstimateIsSumOfBandTerms ==
    Succeeded("estimateTransportEmissions") =>
        LET bands == BandsOfCall(input)
            terms == [i \in 1..Len(bands) |-> BandTerm(input.participantCount, bands[i])]
        IN /\ output.result.totalKgCO2e = KgRound3(KgSum(terms))
           /\ Len(output.result.assumptions) = Len(bands)
           /\ \A i \in 1..Len(bands) :
                /\ output.result.assumptions[i].mode = bands[i].mode
                /\ output.result.assumptions[i].representativeKm = bands[i].representativeKm
                /\ output.result.assumptions[i].probability = bands[i].probability
                /\ output.result.assumptions[i].kgCO2e = KgRound3(terms[i])

\* A result over five bands, one of them with a term that is no multiple
\* of 0.001 and a head count that is no whole number.
C14_Witness ==
    /\ Succeeded("estimateTransportEmissions")
    /\ Len(output.result.assumptions) = 5
    /\ \E i \in 1..5 :
        LET band == BandsOfCall(input)[i]
        IN /\ BandTerm(input.participantCount, band)
                # KgRound3(BandTerm(input.participantCount, band))
           /\ (input.participantCount * band.probability) % ProbOne # 0

----------------------------------------------------------------------------
\* The stated factor: for a flight 0.1859 below 3700 km and 0.1511 from
\* 3700 km on; for every other mode its one constant.
StatedFactor(mode, distanceKm) ==
    IF mode = "flight"
    THEN (IF distanceKm < 3700 THEN 18590 ELSE 15110)
    ELSE Transport_EMISSION_FACTORS[mode]

StatedKgCO2eOfMode(journeys, mode) ==
    SumSeq([i \in 1..Len(journeys) |->
              IF journeys[i].mode = mode
              THEN Times(journeys[i].distanceKm, StatedFactor(mode, journeys[i].distanceKm))
              ELSE 0])

\* C15: every journey of calculateTransportEmissions and every band of
\* estimateTransportEmissions is charged at the stated factor of its mode
\* and distance: a flight at 0.1859 below 3700 km and at 0.1511 from 3700 km
\* on, every other mode at one constant.
C15_FlightFactorTiers ==
    /\ Succeeded("calculateTransportEmissions") =>
        \A i \in 1..Len(output.result.byMode) :
            output.result.byMode[i].totalKgCO2e =
                StatedKgCO2eOfMode(input, output.result.byMode[i].mode)
    /\ Succeeded("estimateTransportEmissions") =>
        \A i \in 1..Len(output.result.assumptions) :
            LET band == BandsOfCall(input)[i]
            IN band.mode \in TransportMode =>
                 output.result.assumptions[i].kgCO2e =
                   KgRound3(KgProduct(input.participantCount * band.probability,
                                      band.representativeKm
                                        * StatedFactor(band.mode, band.representativeKm)))

\* A result for a flight of exactly 3700 km, charged 3700 x 0.1511.
C15_Witness ==
    /\ Succeeded("calculateTransportEmissions")
    /\ input = << [distanceKm |-> 3700, mode |-> "flight"] >>
    /\ output.result.byMode[1].totalKgCO2e = 3700 * 15110

----------------------------------------------------------------------------
\* The closed type set of a category.
TypesOfCategory(category) ==
    IF category = "meal" THEN DOMAIN MEAL_FACTORS
    ELSE IF category = "beverage" THEN DOMAIN BEVERAGE_FACTORS
    ELSE IF category = "snack" THEN DOMAIN SNACK_FACTORS
    ELSE {}

AcceptableCateringItem(item) ==
    /\ item.type \in TypesOfCategory(item.category)
    /\ IsFinite(item.servings)
    /\ item.servings >= 0

\* C16: calculateCateringEmissions, given at least one item, succeeds
\* exactly when every item has a category of meal, beverage or snack, a type
\* of the closed set of that same category and a finite servings >= 0.
C16_CateringItemValidation ==
    (IsCall("calculateCateringEmissions") /\ Len(input) > 0) =>
        (output.ok <=> \A i \in 1..Len(input) : AcceptableCateringItem(input[i]))

\* A call refused for an item of category meal whose type, tea, is valid
\* for a beverage only.
C16_Witness ==
    /\ IsCall("calculateCateringEmissions")
    /\ input = << [category |-> "meal", type |-> "tea", servings |-> 25] >>
    /\ ~output.ok
    /\ output.error.field = "type"

----------------------------------------------------------------------------
\* The share-weighted average of the five meal factors of the stated
\* profile: 40% high-meat, 25% medium-meat, 15% low-meat, 15% vegetarian,
\* 5% vegan.
StatedBlendedFactor ==
    40 * MEAL_FACTORS.high_meat + 25 * MEAL_FACTORS.medium_meat
      + 15 * MEAL_FACTORS.low_meat + 15 * MEAL_FACTORS.vegetarian
      + 5 * MEAL_FACTORS.vegan

----------------------------------------------------------------------------
\* The participants the resolved segments of a result count in all.
ResolvedParticipants(result) ==
    IF \E i \in 1..Len(result.devices.detail) : ~IsFinite(result.devices.detail[i].count)
    THEN NaN
    ELSE SumSeq([i \in 1..Len(result.devices.detail) |-> result.devices.detail[i].count])

\* C18: in every result of calculateVirtualPowerEmissions the counts of the
\* resolved segments sum to participantCount, also when the supplied
\* segments did not and when the default profile was scaled.
C18_SegmentsSumToParticipantCount ==
    Succeeded("calculateVirtualPowerEmissions") =>
        ResolvedParticipants(output.result) = input.participantCount

----------------------------------------------------------------------------
\* C19: Co2CalculationService.calculate returns as total_co2 the total_co2
\* of its input record, whatever the four totals of the breakdown are.
C19_TotalCo2PassedThrough ==
    Succeeded("calculate") => output.result.total_co2 = input.total_co2

\* A result whose total_co2 is the 0 supplied, over a breakdown with energy,
\* travel and catering emissions above 0.
C19_Witness ==
    /\ Succeeded("calculate")
    /\ input.total_co2 = 0
    /\ output.result.total_co2 = 0
    /\ output.result.breakdown.energy > 0
    /\ output.result.breakdown.travel.kg > 0
    /\ output.result.breakdown.catering > 0

----------------------------------------------------------------------------
----------------------------------------------------------------------------
\* An entry resolved through path (c): durationHours x the load estimated
\* from participantCount.
UsesHeadcountPath(entry) ==
    /\ ~IsDefined(entry.totalKwh)
    /\ ~IsDefined(entry.loadKw)
    /\ IsDefined(entry.participantCount)

EntriesOfSource(entries, source) ==
    {i \in 1..Len(entries) : entries[i].source = source}

\* C21: a bySource entry of calculatePowerEmissions carries estimatedLoadKw
\* exactly when the entries aggregated into its source were resolved
\* through path (c); a source that also has entries resolved from totalKwh
\* or from an explicit loadKw presents no estimated load.
C21_EstimatedLoadOnlyForHeadcountPath ==
    Succeeded("calculatePowerEmissions") =>
        \A k \in 1..Len(output.result.bySource) :
            IsDefined(output.result.bySource[k].estimatedLoadKw)
              <=> \A i \in EntriesOfSource(input, output.result.bySource[k].source) :
                    UsesHeadcountPath(input[i])

----------------------------------------------------------------------------
HasNote(result, kind) == \E n \in 1..Len(result.notes) : result.notes[n].note = kind

\* C22: the note "Event is entirely generator-powered" is among the notes of
\* calculatePowerEmissions exactly when diesel_generator is the only source
\* among the entries.
C22_GeneratorOnlyNote ==
    Succeeded("calculatePowerEmissions") =>
        (HasNote(output.result, "generator only")
            <=> {input[i].source : i \in 1..Len(input)} = {"diesel_generator"})

----------------------------------------------------------------------------
\* The factors as the specification states them, in 0.001 kg CO2e/kWh.
StatedPowerFactor(source) ==
    CASE source = "grid_electricity" -> 431
      [] source = "diesel_generator" -> 700
      [] source = "solar" -> 0
      [] source = "natural_gas" -> 202

\* C25: a successful result of calculatePowerEmissions has exactly one
\* bySource entry per distinct source of the entries, whose totalKwh is the
\* rounded sum of that source's resolved energies and whose totalKgCO2e is
\* that energy times the source's factor (0.431, 0.700, 0, 0.202), rounded;
\* grid 4 h at 50 kW with diesel 8 h at 25 kW gives 200 kWh and 86.2 kg,
\* 200 kWh and 140.0 kg, 226.2 kg in total.
C25_OneEntryPerSourceEnergyTimesFactor ==
    Succeeded("calculatePowerEmissions") =>
        LET bySource == output.result.bySource
        IN /\ {bySource[k].source : k \in 1..Len(bySource)}
                = {input[i].source : i \in 1..Len(input)}
           /\ \A k, l \in 1..Len(bySource) :
                bySource[k].source = bySource[l].source => k = l
           /\ \A k \in 1..Len(bySource) :
                LET kwh == PriorityKwhOfSource(input, bySource[k].source)
                IN /\ bySource[k].totalKwh = Round3(kwh, PowerKwhPerMilli)
                   /\ bySource[k].totalKgCO2e
                        = Round3(Times(kwh, StatedPowerFactor(bySource[k].source)),
                                 PowerKgPerMilli)
           /\ input = PowerScenario1 =>
                /\ Len(bySource) = 2
                /\ bySource[1].source = "grid_electricity"
                /\ bySource[1].totalKwh = 200 * 1000 * PowerKwhPerMilli
                /\ bySource[1].totalKgCO2e = 86200 * PowerKgPerMilli
                /\ bySource[2].source = "diesel_generator"
                /\ bySource[2].totalKwh = 200 * 1000 * PowerKwhPerMilli
                /\ bySource[2].totalKgCO2e = 140000 * PowerKgPerMilli
                /\ output.result.totalKgCO2e = 226200 * PowerKgPerMilli

\* The scenario of grid for 4 h at 50 kW and diesel for 8 h at 25 kW has
\* been calculated.
C25_Witness ==
    /\ Succeeded("calculatePowerEmissions")
    /\ input = PowerScenario1
    /\ Len(output.result.bySource) = 2

----------------------------------------------------------------------------
\* The items with composting of every non-food type replaced by landfill.
CompostingAsLandfill(wasteItems) ==
    [i \in 1..Len(wasteItems) |->
        IF wasteItems[i].wasteType # "food" /\ wasteItems[i].disposalMethod = "composting"
        THEN [wasteItems[i] EXCEPT !.disposalMethod = "landfill"]
        ELSE wasteItems[i]]

\* C26: composting applies to food only: for every non-food waste type the
\* composting factor is that type's landfill factor, so a successful
\* calculateWasteEmissions call totals the same with the composting of its
\* non-food items replaced by landfill.
C26_CompostingFallsBackToLandfill ==
    Succeeded("calculateWasteEmissions") =>
        output.result.totalKgCO2e
          = calculateWasteEmissions(CompostingAsLandfill(input)).result.totalKgCO2e

----------------------------------------------------------------------------
\* (w / 1000 tonnes) x 21.3 kg CO2e per tonne, rounded, in 0.001 kg CO2e.
StatedWasteOfKg(w) == (w \div 1000) * 21300 + ((w % 1000) * 213 + 5) \div 10

\* C27: the waste figure of the breakdown that calculate returns is that of
\* one mixed/recycling item of waste_kg x 1000 grams: (waste_kg / 1000
\* tonnes) x 21.3 kg CO2e per tonne, rounded to three decimals.
C27_WasteOfKilograms ==
    Succeeded("calculate") =>
        /\ IsMultiple(output.result.breakdown.waste, WasteKgPerMilli)
        /\ output.result.breakdown.waste \div WasteKgPerMilli
             = StatedWasteOfKg(input.waste_kg)

----------------------------------------------------------------------------
\* C28: calculate returns a breakdown, not an error, for every record that
\* validateCreateEventPayload accepts: non-negative energy_kwh and waste_kg,
\* non-negative whole catering_meals and attendance count, 0 included.
C28_AcceptedRecordsAreCalculated ==
    (IsCall("calculate") /\ validateCreateEventPayload(input).ok) => output.ok

----------------------------------------------------------------------------
\* C30: in every result of estimateTransportEmissions the
\* participantsEstimated of the assumptions sum to participantCount.
C30_EstimatedParticipantsSumToCount ==
    Succeeded("estimateTransportEmissions") =>
        SumSeq([i \in 1..Len(output.result.assumptions) |->
                  output.result.assumptions[i].participantsEstimated])
          = input.participantCount

----------------------------------------------------------------------------
\* C23: a transport mode outside car_petrol, car_electric, bus, train and
\* flight is always an error: estimateTransportEmissions fails when a band
\* of its customPDF names such a mode, as calculateTransportEmissions fails
\* when a journey does.
C23_UnknownModeAlwaysRejected ==
    /\ (IsCall("calculateTransportEmissions")
          /\ \E i \in 1..Len(input) : input[i].mode \notin TransportMode)
        => ~output.ok
    /\ (IsCall("estimateTransportEmissions")
          /\ IsDefined(input.options.customPDF)
          /\ \E i \in 1..Len(Get(input.options.customPDF)) :
                Get(input.options.customPDF)[i].mode \notin TransportMode)
        => ~output.ok

----------------------------------------------------------------------------
NonFiniteField(o) == IsDefined(o) /\ ~IsFinite(Get(o))

\* C24: every calculator rejects NaN and Infinity in a numeric field: a
\* call fails when a power entry's totalKwh, durationHours, loadKw or
\* participantCount, a waste item's quantityG, a journey's distanceKm or a
\* catering item's servings is not finite.
C24_NonFiniteAlwaysRejected ==
    /\ (IsCall("calculatePowerEmissions")
          /\ \E i \in 1..Len(input) :
                \/ NonFiniteField(input[i].totalKwh)
                \/ NonFiniteField(input[i].durationHours)
                \/ NonFiniteField(input[i].loadKw)
                \/ NonFiniteField(input[i].participantCount))
        => ~output.ok
    /\ (IsCall("calculateWasteEmissions")
          /\ \E i \in 1..Len(input) : ~IsFinite(input[i].quantityG))
        => ~output.ok
    /\ (IsCall("calculateTransportEmissions")
          /\ \E i \in 1..Len(input) : ~IsFinite(input[i].distanceKm))
        => ~output.ok
    /\ (IsCall("calculateCateringEmissions")
          /\ \E i \in 1..Len(input) : ~IsFinite(input[i].servings))
        => ~output.ok

----------------------------------------------------------------------------
EventRowsOf(r) == {e \in events : e.id = r}
EmissionRowsOf(r) == {d \in event_emission_data : d.event_id = r}

\* C29: createEventWithEmissionData is all-or-nothing: once a call has
\* thrown, whether at the event insert or at the emission-data insert and
\* whatever the compensating delete answered, no event row of that call is
\* in table events; once a call has returned, exactly one event row and
\* exactly one emission-data row of it exist, the latter with total_co2 = 0.
C29_AllOrNothing ==
    \A r \in Requests :
        /\ requests[r].pc = "thrown" => EventRowsOf(r) = {}
        /\ requests[r].pc = "returned" =>
              /\ Cardinality(EventRowsOf(r)) = 1
              /\ Cardinality(EmissionRowsOf(r)) = 1
              /\ \A d \in EmissionRowsOf(r) : d.total_co2 = 0

====
